---- MODULE Spec2Model ----
(***************************************************************************)
(* Model of the evaluation core of SCE-Bench: response parsing and data    *)
(* cleaning (analysis/common/preprocessing.py), the task table             *)
(* (analysis/common/task_config.py), the metrics                          *)
(* (analysis/common/metrics.py), file discovery                            *)
(* (analysis/evaluators/base.py), the two evaluators                       *)
(* (analysis/evaluators/pointwise.py, distribution.py) and the evaluation  *)
(* driver run_eval (analysis/evaluators/evaluate.py).                      *)
(*                                                                         *)
(* Texts are sequences of lexical tokens, numbers are integers, and        *)
(* fractions are kept exact as numerator/denominator pairs.  NaN / None    *)
(* are explicit markers.                                                   *)
(***************************************************************************)
EXTENDS Integers, Sequences, FiniteSets, TLC

VARIABLES
    pc,                \* position of the call under way
    TASK_CONFIGS,      \* the module-level task table of task_config.py
    df,                \* the DataFrame handed to a cleaning function
    task_name,         \* the task argument of the call
    cleaned,           \* outcome of clean_task_data / clean_distribution_data
    samples,           \* calculate_ecdf: the samples argument
    truth,             \* calculate_ecdf: the truth argument
    ecdf_out,          \* calculate_ecdf: its outcome
    eval_type,         \* run_eval: "pointwise" or "distribution"
    confidence_level,  \* run_eval: confidence level, in percent
    tasks,             \* run_eval: the requested task list
    file,              \* evaluate_task: what the task's file pattern finds
    task_i,            \* run_eval: position of the loop over tasks
    results,           \* run_eval: the results dict, task name -> record
    ret,               \* evaluate_task: outcome of the last call
    arg_true,          \* a metric function: its first array argument
    arg_pred,          \* a metric function: its second array argument
    metric_out,        \* a metric function: its return value
    input_dir,         \* find_task_file: the files of the input directory
    arg_text,          \* extract_samples: the text argument
    call_log,          \* the calls made on the task table, with their outcomes
    max_retries,       \* get_llm_response: the max_retries argument
    retry_count,       \* get_llm_response: the local retry_count
    requests,          \* get_llm_response: the calls of chat.completions.create
    input_rows,        \* run_experiment: the (userid, date) of the rows of df
    output_csv,        \* run_experiment: the file at output_path
    existing,          \* run_experiment: what line 239 read from the file
    processed_set,     \* run_experiment: the keys of the rows of existing
    df_to_process,     \* run_experiment: the rows to process, as indices of df
    task_state,        \* run_experiment: the state of each row task
    sem_value,         \* the semaphore: its free permits
    sem_waiters,       \* the semaphore: the row tasks waiting, oldest first
    completed,         \* as_completed: the finished tasks not yet yielded
    consumed,          \* as_completed: the number of tasks yielded
    pending_results,   \* run_experiment: the results not yet written
    sent,              \* calls of get_llm_response of this run, per row of df
    max_concurrent,    \* provider_cfg['max_concurrent']
    save_every,        \* config['save_every']
    debug_limit,       \* config['debug_limit'], 0 for None
    run_no,            \* the number of runs started
    runs_allowed       \* the number of runs that may be started

\* The variables of the calls outside the evaluators.
extract_vars == <<arg_text>>
config_vars == <<call_log>>
llm_vars == <<max_retries, retry_count, requests>>
run_vars == <<input_rows, output_csv, existing, processed_set, df_to_process,
              task_state, sem_value, sem_waiters, completed, consumed,
              pending_results, sent, max_concurrent, save_every, debug_limit,
              run_no, runs_allowed>>
other_vars == <<extract_vars, config_vars, llm_vars, run_vars>>

\* The variables of the evaluators, the cleaning and the metric functions.
eval_vars == <<df, task_name, cleaned, samples, truth, ecdf_out, eval_type,
               confidence_level, tasks, file, task_i, results, arg_true,
               arg_pred, metric_out, input_dir>>

vars == <<pc, TASK_CONFIGS, df, task_name, cleaned, samples, truth, ecdf_out,
          eval_type, confidence_level, tasks, file, task_i, results, ret,
          arg_true, arg_pred, metric_out, input_dir, arg_text, call_log,
          max_retries, retry_count, requests, input_rows, output_csv, existing,
          processed_set, df_to_process, task_state, sem_value, sem_waiters,
          completed, consumed, pending_results, sent, max_concurrent,
          save_every, debug_limit, run_no, runs_allowed>>

----------------------------------------------------------------------------
(* Bounds of the model *)

MaxRows == 3          \* rows of a DataFrame handed to a cleaning function
MaxSamples == 3       \* length of a sample list handed to calculate_ecdf
MaxFileRows == 2      \* rows of a file read by evaluate_task
MaxTasks == 2         \* length of the task list handed to run_eval
MaxIqrRows == 5       \* rows of a DataFrame handed to the iqr policy
MaxLen == 3           \* length of an array handed to a metric function
MaxFiles == 2         \* files of an input directory
MaxMtime == 2         \* modification times of the files of a directory
MaxPointRows == 3     \* rows of a file read by the pointwise evaluator
MaxCalls == 3          \* calls made in a row on the task table
MaxRetries == 3        \* the max_retries argument of get_llm_response
MaxResumeRows == 2     \* rows of df in the runs that are resumed
MaxSaveRows == 3       \* rows of df in the runs that save in batches
MaxRuns == 2           \* runs of run_experiment on one output file
MaxConcurrent == 2     \* provider_cfg['max_concurrent']
MaxSaveEvery == 2      \* config['save_every']
MaxToks == 5          \* tokens of a text handed to extract_samples
LongList == 50        \* length of the long sample lists among the inputs

----------------------------------------------------------------------------
(* Values *)

NaN == [nan |-> TRUE, v |-> 0]
Num(n) == [nan |-> FALSE, v |-> n]

\* Lexical tokens of an LLM response text.
Tok(t, n) == [t |-> t, v |-> n]
ThinkOpen == Tok("think_open", 0)     \* <think>
ThinkClose == Tok("think_close", 0)   \* </think>
Ws == Tok("ws", 0)                    \* a run of blanks or newlines
Word == Tok("word", 0)                \* prose, not a literal
LB == Tok("lb", 0)                    \* [
RB == Tok("rb", 0)                    \* ]
Comma == Tok("comma", 0)              \* ,
NumTok(n) == Tok("num", n)            \* a numeric literal
StrTok == Tok("str", 0)               \* a quoted string, not a number: 'a'
NumStrTok(n) == Tok("numstr", n)      \* a quoted numeric string: '5'
NoneTok == Tok("none", 0)             \* None

\* A cell of the LLM column: a missing value (NaN) or a text.
NaCell == [na |-> TRUE, text |-> <<>>]
Text(toks) == [na |-> FALSE, text |-> toks]

\* A cell of the human (ground-truth) column.
HNull == [k |-> "null", v |-> 0]      \* NaN / None
HBlank == [k |-> "blank", v |-> 0]    \* "" or blanks only, object dtype
HText == [k |-> "txt", v |-> 0]       \* non-blank, non-numeric text
HNum(n) == [k |-> "num", v |-> n]     \* a number, or numeric text

Row(u, d, h, l) == [userid |-> u, date |-> d, human |-> h, llm |-> l]

----------------------------------------------------------------------------
(* clean_llm_response, preprocessing.py 17-42 *)

\* Index of the first token equal to t at a position > from, 0 if none.
FirstAfter(toks, t, from) ==
    LET hits == {i \in (from + 1)..Len(toks) : toks[i] = t}
    IN IF hits = {} THEN 0
       ELSE CHOOSE i \in hits : \A j \in hits : i <= j

\* Mutant of StripThink: the two tags removed, what they enclose kept.
StripThinkTagsOnly(toks) == SelectSeq(toks, LAMBDA t : t \notin {ThinkOpen, ThinkClose})

RECURSIVE StripThink(_)
\* re.sub(r'<think>.*?</think>', '', text, flags=re.DOTALL): every leftmost,
\* shortest span from a <think> to the next </think> is removed.  A <think>
\* with no </think> after it stays, and so does all that follows it.
StripThink(toks) ==
    LET open == FirstAfter(toks, ThinkOpen, 0)
        close == IF open = 0 THEN 0 ELSE FirstAfter(toks, ThinkClose, open)
    IN IF close = 0 THEN toks
       ELSE SubSeq(toks, 1, open - 1) \o StripThink(SubSeq(toks, close + 1, Len(toks)))

RECURSIVE LStrip(_)
LStrip(toks) ==
    IF toks # <<>> /\ Head(toks) = Ws THEN LStrip(Tail(toks)) ELSE toks

RECURSIVE RStrip(_)
RStrip(toks) ==
    IF toks # <<>> /\ toks[Len(toks)] = Ws
    THEN RStrip(SubSeq(toks, 1, Len(toks) - 1)) ELSE toks

\* str.strip()
Strip(toks) == RStrip(LStrip(toks))

clean_llm_response(cell) ==
    IF cell.na THEN cell
    ELSE Text(Strip(StripThink(cell.text)))

----------------------------------------------------------------------------
(* pd.to_numeric(..., errors='coerce') as used at preprocessing.py 122-123,  *)
(* 225: a text that is one numeric literal converts, anything else is NaN.   *)

ToNumericLlm(cell) ==
    IF cell.na THEN NaN
    ELSE IF Len(cell.text) = 1 /\ cell.text[1].t = "num"
         THEN Num(cell.text[1].v)
         ELSE NaN

ToNumericHuman(h) == IF h.k = "num" THEN Num(h.v) ELSE NaN

----------------------------------------------------------------------------
(* extract_samples, preprocessing.py 45-73 *)

\* The outcome of a call: the value returned, or the exception raised.
Returned(v) == [raised |-> "", val |-> v]
Raised(exc) == [raised |-> exc, val |-> <<>>]

NoList == [ok |-> FALSE, val |-> <<>>, raised |-> ""]
List(l) == [ok |-> TRUE, val |-> l, raised |-> ""]

ItemKinds == {"num", "str", "numstr", "none"}

\* Blanks between the tokens of an expression do not matter to the parser.
DropWs(toks) == SelectSeq(toks, LAMBDA t : t # Ws)

\* The outcome of parsing: the value read and the position after it.
ParseFail == [ok |-> FALSE, val |-> <<>>, next |-> 0]
Parsed(v, next) == [ok |-> TRUE, val |-> v, next |-> next]

\* A Python literal of the grammar value ::= item | [ ] | [ value {, value} [,] ]
\* read from position i of s.  With names set, a bare word counts as an
\* item, which tells an expression that is no literal (ValueError) from a
\* text that is no expression (SyntaxError).
RECURSIVE ParseValue(_, _, _)
RECURSIVE ParseItems(_, _, _, _)
ParseValue(s, i, names) ==
    IF i > Len(s) THEN ParseFail
    ELSE IF s[i].t \in ItemKinds \/ (names /\ s[i] = Word)
    THEN Parsed([k |-> s[i].t, v |-> s[i].v], i + 1)
    ELSE IF s[i] = LB THEN ParseItems(s, i + 1, names, <<>>)
    ELSE ParseFail

ParseItems(s, i, names, acc) ==
    IF i > Len(s) THEN ParseFail
    ELSE IF s[i] = RB THEN Parsed([k |-> "list", v |-> acc], i + 1)
    ELSE LET item == ParseValue(s, i, names)
         IN IF ~item.ok \/ item.next > Len(s) THEN ParseFail
            ELSE IF s[item.next] = Comma
            THEN ParseItems(s, item.next + 1, names, Append(acc, item.val))
            ELSE IF s[item.next] = RB
            THEN Parsed([k |-> "list", v |-> Append(acc, item.val)], item.next + 1)
            ELSE ParseFail

\* Whether s is a list literal without a list inside: [item, item, ...],
\* a trailing comma allowed.
IsFlatList(s) ==
    /\ Len(s) >= 2
    /\ s[1] = LB
    /\ s[Len(s)] = RB
    /\ \A i \in 2..(Len(s) - 1) :
          IF i % 2 = 0 THEN s[i].t \in ItemKinds ELSE s[i] = Comma

\* ast.literal_eval(text): the value of a text that is one literal, else the
\* exception raised.  A flat list, however long, is read without recursion.
LiteralEval(toks) ==
    LET s == DropWs(toks)
        lit == ParseValue(s, 1, FALSE)
        expr == ParseValue(s, 1, TRUE)
    IN IF IsFlatList(s)
       THEN Returned([k |-> "list",
                      v |-> [i \in 1..((Len(s) - 1) \div 2) |->
                                [k |-> s[2 * i].t, v |-> s[2 * i].v]]])
       ELSE IF lit.ok /\ lit.next = Len(s) + 1 THEN Returned(lit.val)
       ELSE IF expr.ok /\ expr.next = Len(s) + 1 THEN Raised("ValueError")
       ELSE Raised("SyntaxError")

\* The bare except of extract_samples catches every exception.
ExtractCaught(exc) == TRUE

\* One try block of extract_samples, preprocessing.py 56-61 and 65-71: the
\* parsed list when the text is a list literal, NoList when it is another
\* literal or the parser raised.
LiteralEvalList(toks) ==
    LET out == LiteralEval(toks)
    IN IF out.raised # ""
       THEN (IF ExtractCaught(out.raised) THEN NoList
             ELSE [ok |-> FALSE, val |-> <<>>, raised |-> out.raised])
       ELSE IF out.val.k = "list" THEN List(out.val.v)
       ELSE NoList

\* Mutant of FirstBracketSpan: the longest span, from the first [ to the
\* last ].
FirstBracketSpanGreedy(toks) ==
    LET i == FirstAfter(toks, LB, 0)
        js == {j \in (i + 1)..Len(toks) : toks[j] = RB}
    IN IF i = 0 \/ js = {} THEN <<0, 0>>
       ELSE <<i, CHOOSE j \in js : \A k \in js : k <= j>>

\* re.search(r'\[(.*?)\]', text, re.DOTALL): the span from the first [ to
\* the first ] after it; <<0, 0>> when there is none.
FirstBracketSpan(toks) ==
    LET i == FirstAfter(toks, LB, 0)
        j == IF i = 0 THEN 0 ELSE FirstAfter(toks, RB, i)
    IN IF i = 0 \/ j = 0 THEN <<0, 0>> ELSE <<i, j>>

extract_samples(cell) ==
    IF cell.na THEN NoList
    ELSE LET text == Strip(cell.text)
             whole == LiteralEvalList(text)
             span == FirstBracketSpan(text)
         IN IF whole.ok \/ whole.raised # "" THEN whole
            ELSE IF span = <<0, 0>> THEN NoList
            ELSE LiteralEvalList(<<LB>> \o SubSeq(text, span[1] + 1, span[2] - 1) \o <<RB>>)

----------------------------------------------------------------------------
(* task_config.py *)

TaskConfigsAtLoad ==
    [spending |-> [llm_col |-> "llm_response", human_col |-> "Q26v2part2",
                   file_pattern |-> "spending_*_withHumanData.csv",
                   cleaning_method |-> "iqr"],
     labor    |-> [llm_col |-> "llm_response", human_col |-> "oo2c3",
                   file_pattern |-> "labor_*_withHumanData.csv",
                   cleaning_method |-> "range", valid_range |-> <<0, 100>>],
     credit   |-> [llm_col |-> "llm_response", human_col |-> "N17b_2",
                   file_pattern |-> "credit_*_withHumanData.csv",
                   cleaning_method |-> "range", valid_range |-> <<0, 100>>]]

\* Mutant of get_task_config: an unknown name given an empty configuration.
get_task_configLenient(name) ==
    IF name \notin DOMAIN TASK_CONFIGS THEN Returned(<<>>)
    ELSE Returned(TASK_CONFIGS[name])

\* get_task_config(task_name) without overrides: a copy of the entry, or
\* ValueError for a name that is not a key of TASK_CONFIGS.
get_task_config(name) ==
    IF name \notin DOMAIN TASK_CONFIGS THEN Raised("ValueError")
    ELSE Returned(TASK_CONFIGS[name])

\* overrides=None, and the empty dict: both are falsy at line 56.
NoOverrides == [k \in {} |-> ""]

\* dict.update(overrides) on a dict
Update(cfg, overrides) ==
    [k \in DOMAIN cfg \cup DOMAIN overrides |->
        IF k \in DOMAIN overrides THEN overrides[k] ELSE cfg[k]]

\* get_task_config(task_name, overrides): the copy of the entry, updated
\* with the overrides when there are any.
get_task_config_overrides(name, overrides) ==
    IF name \notin DOMAIN TASK_CONFIGS THEN Raised("ValueError")
    ELSE IF DOMAIN overrides # {} THEN Returned(Update(TASK_CONFIGS[name], overrides))
    ELSE Returned(TASK_CONFIGS[name])

\* Mutant of ConfigsAfterCall: the entry updated in place, without the copy.
ConfigsAfterCallInPlace(name, overrides) ==
    IF name \in DOMAIN TASK_CONFIGS /\ DOMAIN overrides # {}
    THEN [TASK_CONFIGS EXCEPT ![name] = Update(@, overrides)]
    ELSE TASK_CONFIGS

\* The task table after a call of get_task_config: line 54 copies the entry
\* and line 57 updates the copy, so the table is the one before the call.
ConfigsAfterCall(name, overrides) == TASK_CONFIGS

\* dict.get(key, default)
Get(cfg, key, default) == IF key \in DOMAIN cfg THEN cfg[key] ELSE default

----------------------------------------------------------------------------
(* Series.quantile and the IQR fence, preprocessing.py 146-157 *)

IqrCoefficient == 15

\* The values of a column that are not NaN, in ascending order.
SortedValues(col) ==
    LET present == SelectSeq(col, LAMBDA x : ~x.nan)
    IN SortSeq([i \in 1..Len(present) |-> present[i].v], LAMBDA a, b : a < b)

\* 4 * Series.quantile(k/4) for k = 1 (Q1) or 3 (Q3): pandas skips NaN and
\* interpolates linearly between the two order statistics around position
\* (n-1)*k/4; the quantile of an empty column is NaN.
Quantile4(col, k) ==
    LET x == SortedValues(col)
        n == Len(x)
        p == k * (n - 1)
        lo == (p \div 4) + 1
        r == p % 4
    IN IF n = 0 THEN NaN
       ELSE IF r = 0 THEN Num(4 * x[lo])
       ELSE Num(4 * x[lo] + r * (x[lo + 1] - x[lo]))

\* 4 * (q3 + 15 * (q3 - q1)); NaN arithmetic gives NaN.
UpperFence4(col) ==
    LET q1 == Quantile4(col, 1)
        q3 == Quantile4(col, 3)
    IN IF q1.nan \/ q3.nan THEN NaN
       ELSE Num(q3.v + IqrCoefficient * (q3.v - q1.v))

\* Mutant of InlierMask: the comparison with the fence made strict.
InlierMaskStrict(x, fence4) ==
    ~x.nan /\ ~fence4.nan /\ 4 * x.v < fence4.v

\* value <= fence, elementwise; a comparison with NaN is False.
InlierMask(x, fence4) ==
    ~x.nan /\ ~fence4.nan /\ 4 * x.v <= fence4.v

----------------------------------------------------------------------------
(* clean_task_data, preprocessing.py 76-169 *)

Stats(orig, hn, li, rr, ri, fin) ==
    [original_rows |-> orig, human_null |-> hn, llm_invalid |-> li,
     rows_removed_range |-> rr, rows_removed_iqr |-> ri, final_rows |-> fin]

\* Mutant of WithCleanLlm: only the first row of each (userid, date) kept.
WithCleanLlmFirstOfKey(d) ==
    SelectSeq([i \in 1..Len(d) |-> [idx |-> i, userid |-> d[i].userid, date |-> d[i].date,
                                    human |-> d[i].human,
                                    llm |-> clean_llm_response(d[i].llm)]],
              LAMBDA r : \A j \in 1..(r.idx - 1) :
                            <<d[j].userid, d[j].date>> # <<r.userid, r.date>>)

\* df.copy() with the LLM column cleaned; idx is the DataFrame index label,
\* which every later selection keeps.
WithCleanLlm(d) ==
    [i \in 1..Len(d) |-> [idx |-> i, userid |-> d[i].userid, date |-> d[i].date,
                          human |-> d[i].human,
                          llm |-> clean_llm_response(d[i].llm)]]

\* isna() | (astype(str).str.strip() == '')
HumanNullMask(h) == h.k = "null" \/ h.k = "blank"

\* Mutant of RangeMask: the interval taken as open.
RangeMaskOpen(x, min_val, max_val) ==
    ~x.nan /\ x.v > min_val /\ x.v < max_val

\* (llm >= min_val) & (llm <= max_val)
RangeMask(x, min_val, max_val) ==
    ~x.nan /\ x.v >= min_val /\ x.v <= max_val

Column(rows, field) == [i \in 1..Len(rows) |-> rows[i][field]]

\* dropna(subset=[llm_col, human_col])
DropNaPoint(rows) == SelectSeq(rows, LAMBDA r : ~r.llm.nan /\ ~r.human.nan)

\* preprocessing.py 115-119: the rows whose human value is not null.
DropHumanNull(rows) == SelectSeq(rows, LAMBDA r : ~HumanNullMask(r.human))

\* preprocessing.py 122-123: both columns converted to numbers.
ToNumericRows(rows) ==
    [i \in 1..Len(rows) |->
        [rows[i] EXCEPT !.llm = ToNumericLlm(@), !.human = ToNumericHuman(@)]]

\* preprocessing.py 126-128: the rows whose LLM value is a number.
DropLlmInvalid(rows) == SelectSeq(rows, LAMBDA r : ~r.llm.nan)

\* preprocessing.py 135-141: the range policy.
RangeFilterPoint(rows, range) ==
    SelectSeq(rows, LAMBDA r : RangeMask(r.llm, range[1], range[2]))

\* preprocessing.py 144-163: the iqr policy.
IqrFilterWith(rows, fence_h, fence_l) ==
    SelectSeq(rows, LAMBDA r : InlierMask(r.human, fence_h) /\ InlierMask(r.llm, fence_l))

\* Mutant of IqrFilterPoint: the fence of the human column used for both.
IqrFilterPointShared(rows) ==
    IqrFilterWith(rows, UpperFence4(Column(rows, "human")),
                  UpperFence4(Column(rows, "human")))

IqrFilterPoint(rows) ==
    IqrFilterWith(rows, UpperFence4(Column(rows, "human")),
                  UpperFence4(Column(rows, "llm")))

\* preprocessing.py 132-163: the policy the task's cleaning_method selects.
ApplyPointPolicy(rows, method, range) ==
    IF method = "range" THEN RangeFilterPoint(rows, range)
    ELSE IF method = "iqr" THEN IqrFilterPoint(rows)
    ELSE rows

\* preprocessing.py 166-169: the final dropna and the returned pair.  rows0
\* is the input, rows1 what the null check keeps, rows3 what the validity
\* check keeps, rows4 what the policy keeps, rows5 what dropna keeps.
PointResult(rows0, rows1, rows3, rows4, rows5, method) ==
    Returned([rows |-> rows5,
              stats |-> Stats(Len(rows0), Len(rows0) - Len(rows1),
                              Len(rows1) - Len(rows3),
                              IF method = "range" THEN Len(rows3) - Len(rows4) ELSE 0,
                              IF method = "iqr" THEN Len(rows3) - Len(rows4) ELSE 0,
                              Len(rows5))])

PointAfterPolicy(rows0, rows1, rows3, rows4, method) ==
    PointResult(rows0, rows1, rows3, rows4, DropNaPoint(rows4), method)

PointAfterInvalid(rows0, rows1, rows3, cfg) ==
    PointAfterPolicy(rows0, rows1, rows3,
                     ApplyPointPolicy(rows3, Get(cfg, "cleaning_method", "none"),
                                      Get(cfg, "valid_range", <<0, 100>>)),
                     Get(cfg, "cleaning_method", "none"))

PointAfterNull(rows0, rows1, cfg) ==
    IF cfg.raised # "" THEN Raised(cfg.raised)
    ELSE PointAfterInvalid(rows0, rows1, DropLlmInvalid(ToNumericRows(rows1)), cfg.val)

PointSteps(rows0, cfg) == PointAfterNull(rows0, DropHumanNull(rows0), cfg)

clean_task_data(d, name) == PointSteps(WithCleanLlm(d), get_task_config(name))

----------------------------------------------------------------------------
(* clean_distribution_data, preprocessing.py 172-280 *)

\* preprocessing.py 219: the LLM column parsed as lists.
ParseRows(rows) ==
    [i \in 1..Len(rows) |-> [rows[i] EXCEPT !.llm = extract_samples(@)]]

\* preprocessing.py 220-222: the rows whose list was parsed.
DropUnparsed(rows) ==
    LET kept == SelectSeq(rows, LAMBDA r : r.llm.ok)
    IN [i \in 1..Len(kept) |-> [kept[i] EXCEPT !.llm = @.val]]

\* preprocessing.py 225-226: the human column converted, its NaN dropped.
NumericHumanRows(rows) ==
    SelectSeq([i \in 1..Len(rows) |-> [rows[i] EXCEPT !.human = ToNumericHuman(@)]],
              LAMBDA r : ~r.human.nan)

\* Mutant of filter_samples: the boundaries of the interval excluded.
filter_samplesOpen(l, min_val, max_val) ==
    SelectSeq(l, LAMBDA x : x.k = "num" /\ min_val < x.v /\ x.v < max_val)

\* filter_samples, preprocessing.py 235-239: the elements that are int or
\* float and lie in the closed interval, in their order.
filter_samples(l, min_val, max_val) ==
    SelectSeq(l, LAMBDA x : x.k = "num" /\ min_val <= x.v /\ x.v <= max_val)

\* preprocessing.py 242: every list filtered.
FilterRows(rows, range) ==
    [i \in 1..Len(rows) |->
        [rows[i] EXCEPT !.llm = filter_samples(@, range[1], range[2])]]

\* preprocessing.py 245-248: the rows whose filtered list is not empty.
DropEmpty(rows) == SelectSeq(rows, LAMBDA r : Len(r.llm) # 0)

\* The iqr branch, preprocessing.py 251-277.  Line 255 reads the local
\* iqr_h in the expression that first assigns it, so the branch ends there
\* with UnboundLocalError whatever the rows are.
DistIqrBranch(rows) == Raised("UnboundLocalError")

\* preprocessing.py 279-280.  rows5 is what the policy was given, rows7
\* what it keeps.
DistResult(rows0, rows1, rows3, rows5, rows7, method) ==
    Returned([rows |-> rows7,
              stats |-> Stats(Len(rows0), Len(rows0) - Len(rows1),
                              Len(rows1) - Len(rows3),
                              IF method = "range" THEN Len(rows5) - Len(rows7) ELSE 0,
                              IF method = "iqr" THEN Len(rows5) - Len(rows7) ELSE 0,
                              Len(rows7))])

DistIqrResult(rows0, rows1, rows3, rows5, iqr) ==
    IF iqr.raised # "" THEN Raised(iqr.raised)
    ELSE DistResult(rows0, rows1, rows3, rows5, iqr.val, "iqr")

\* preprocessing.py 229-277: the policy the task's cleaning_method selects.
DistAfterHuman(rows0, rows1, rows3, rows5, method, range) ==
    IF method = "range"
    THEN DistResult(rows0, rows1, rows3, rows5, DropEmpty(FilterRows(rows5, range)), method)
    ELSE IF method = "iqr"
    THEN DistIqrResult(rows0, rows1, rows3, rows5, DistIqrBranch(rows5))
    ELSE DistResult(rows0, rows1, rows3, rows5, rows5, method)

DistAfterParse(rows0, rows1, rows3, cfg) ==
    DistAfterHuman(rows0, rows1, rows3, NumericHumanRows(rows3),
                   Get(cfg, "cleaning_method", "none"),
                   Get(cfg, "valid_range", <<0, 100>>))

DistAfterNull(rows0, rows1, cfg) ==
    IF cfg.raised # "" THEN Raised(cfg.raised)
    ELSE DistAfterParse(rows0, rows1, DropUnparsed(ParseRows(rows1)), cfg.val)

DistSteps(rows0, cfg) == DistAfterNull(rows0, DropHumanNull(rows0), cfg)

clean_distribution_data(d, name) == DistSteps(WithCleanLlm(d), get_task_config(name))

----------------------------------------------------------------------------
(* Exact fractions: [nan, n, d] with d > 0, in lowest terms. *)

RECURSIVE Gcd(_, _)
Gcd(a, b) == IF b = 0 THEN a ELSE Gcd(b, a % b)

Abs(a) == IF a < 0 THEN -a ELSE a

QNaN == [nan |-> TRUE, n |-> 0, d |-> 1]
Q(n, d) ==
    LET g == Gcd(Abs(n), d)
    IN [nan |-> FALSE, n |-> n \div g, d |-> d \div g]
QOfNum(x) == IF x.nan THEN QNaN ELSE Q(x.v, 1)
QAdd(a, b) == Q(a.n * b.d + b.n * a.d, a.d * b.d)
\* Mutant of QSub: the difference written as a sum.
QSubAsSum(a, b) == Q(a.n * b.d + b.n * a.d, a.d * b.d)
QSub(a, b) == Q(a.n * b.d - b.n * a.d, a.d * b.d)
QAbs(a) == Q(Abs(a.n), a.d)
QMul(a, b) == Q(a.n * b.n, a.d * b.d)
QDivInt(a, k) == Q(a.n, a.d * k)
QEq(a, b) == a.n * b.d = b.n * a.d
QLeq(a, b) == a.n * b.d <= b.n * a.d
\* a / b for b # 0
QDiv(a, b) ==
    IF b.n > 0 THEN Q(a.n * b.d, a.d * b.n) ELSE Q(-(a.n * b.d), a.d * (-b.n))
\* The greatest integer <= a.
FloorQ(a) == a.n \div a.d

RECURSIVE QSum(_)
QSum(s) == IF s = <<>> THEN Q(0, 1) ELSE QAdd(Head(s), QSum(Tail(s)))

\* round(x, digits) of a value that is not NaN, in units of 1/scale
\* (scale = 10^digits), ties to even.
Round(a, scale) ==
    LET num == a.n * scale
        q == num \div a.d
        r == num % a.d
    IN IF 2 * r < a.d THEN q
       ELSE IF 2 * r > a.d THEN q + 1
       ELSE IF q % 2 = 0 THEN q ELSE q + 1

\* round(x, digits) if not np.isnan(x) else None
RoundOrNull(a, scale) ==
    IF a.nan THEN [null |-> TRUE, nan |-> FALSE, v |-> 0, scale |-> scale]
    ELSE [null |-> FALSE, nan |-> FALSE, v |-> Round(a, scale), scale |-> scale]

\* round(x, digits) without a NaN check: round(nan) is nan.
RoundUnguarded(a, scale) ==
    IF a.nan THEN [null |-> FALSE, nan |-> TRUE, v |-> 0, scale |-> scale]
    ELSE [null |-> FALSE, nan |-> FALSE, v |-> Round(a, scale), scale |-> scale]

----------------------------------------------------------------------------
(* calculate_ecdf, metrics.py 165-193 *)

\* float(x): the error it raises, "" when it converts.
FloatError(x) ==
    IF x.k = "num" \/ x.k = "numstr" THEN ""
    ELSE IF x.k = "str" THEN "ValueError"
    ELSE "TypeError"

\* Mutant of EcdfCaught: TypeError left out of the except clause.
EcdfCaughtValueErrorOnly == {"ValueError"}

\* The exceptions the try block of calculate_ecdf catches, metrics.py 187.
EcdfCaught == {"ValueError", "TypeError"}

\* Mutant of TieWeight2: a sample equal to the truth counted like one below it.
TieWeightFull == 1 + 1

\* The weight of a sample equal to the truth, in halves: 0.5.
TieWeight2 == 1

EcdfNone == [raised |-> "", none |-> TRUE, q |-> QNaN]

calculate_ecdf(s, t) ==
    LET all == s \o <<t>>
        errs == {FloatError(all[i]) : i \in 1..Len(all)} \ {""}
        first == CHOOSE i \in 1..Len(all) :
                    /\ FloatError(all[i]) # ""
                    /\ \A j \in 1..(i - 1) : FloatError(all[j]) = ""
        count_less == Cardinality({i \in 1..Len(s) : s[i].v < t.v})
        count_equal == Cardinality({i \in 1..Len(s) : s[i].v = t.v})
    IN IF Len(s) = 0 THEN EcdfNone
       ELSE IF errs # {}
       THEN IF FloatError(all[first]) \in EcdfCaught THEN EcdfNone
            ELSE [raised |-> FloatError(all[first]), none |-> FALSE, q |-> QNaN]
       ELSE [raised |-> "", none |-> FALSE,
             q |-> Q(2 * count_less + TieWeight2 * count_equal, 2 * Len(s))]

----------------------------------------------------------------------------
(* compute_mae, compute_rmse, compute_temporal_spearman,                    *)
(* compute_js_divergence: metrics.py 17-162.  Arguments are sequences of    *)
(* fractions.                                                               *)

\* Mutant of ValidPairs: only the NaN of the first array looked at.
ValidPairsTrueOnly(a, b) == {i \in 1..Len(a) : ~a[i].nan}

\* The index-aligned pairs in which neither value is NaN.
ValidPairs(a, b) == {i \in 1..Len(a) : ~a[i].nan /\ ~b[i].nan}

\* The sum of a[i] over the indices i of S.
RECURSIVE SumOver(_, _)
SumOver(S, a) ==
    IF S = {} THEN Q(0, 1)
    ELSE LET i == CHOOSE j \in S : TRUE
         IN QAdd(a[i], SumOver(S \ {i}, a))

compute_mae(y_true, y_pred) ==
    LET mask == ValidPairs(y_true, y_pred)
        diff == [i \in 1..Len(y_true) |->
                    IF i \in mask THEN QAbs(QSub(y_true[i], y_pred[i])) ELSE QNaN]
    IN IF mask = {} THEN QNaN
       ELSE QDivInt(SumOver(mask, diff), Cardinality(mask))

\* The mean of the squared differences: compute_rmse returns its square
\* root, which is kept as the radicand (sq); NaN when no pair remains.
compute_rmse(y_true, y_pred) ==
    LET mask == ValidPairs(y_true, y_pred)
        sqd == [i \in 1..Len(y_true) |->
                    IF i \in mask
                    THEN QMul(QSub(y_true[i], y_pred[i]), QSub(y_true[i], y_pred[i]))
                    ELSE QNaN]
    IN IF mask = {} THEN [nan |-> TRUE, sq |-> QNaN]
       ELSE [nan |-> FALSE,
             sq |-> QDivInt(SumOver(mask, sqd), Cardinality(mask))]

IsConstant(a, S) == \A i, j \in S : QEq(a[i], a[j])

\* a[valid_mask]: the values of a at the indices of mask, in their order.
Masked(a, mask) ==
    LET idx == SelectSeq([i \in 1..Len(a) |-> i], LAMBDA i : i \in mask)
    IN [k \in 1..Len(idx) |-> a[idx[k]]]

\* scipy.stats.spearmanr(x, y), metrics.py 110: the coefficient and the
\* p-value are functions of the two series, which stand for them.
spearmanr(x, y) == <<x, y>>

\* Which of the two results is NaN, and the number of points used.  With
\* fewer than 2 valid points both are NaN; spearmanr gives a NaN coefficient
\* for a constant series and a NaN p-value when it has 0 degrees of freedom
\* (2 points).  A result that is not NaN is the value v.
compute_temporal_spearman(ts_true, ts_pred) ==
    LET mask == ValidPairs(ts_true, ts_pred)
        n == Cardinality(mask)
        rho_nan == n < 2 \/ IsConstant(ts_true, mask) \/ IsConstant(ts_pred, mask)
        corr == spearmanr(Masked(ts_true, mask), Masked(ts_pred, mask))
    IN [rho |-> [nan |-> rho_nan, v |-> corr],
        p |-> [nan |-> rho_nan \/ n = 2, v |-> corr], n |-> n]

\* Mutant of MapeMask: the pairs with a NaN ground truth excluded as well.
MapeMaskNoNaN(y_true) == {i \in 1..Len(y_true) : ~y_true[i].nan /\ y_true[i].n # 0}

\* mask = y_true != 0, metrics.py 56; NaN != 0 is True.
MapeMask(y_true) == {i \in 1..Len(y_true) : y_true[i].nan \/ y_true[i].n # 0}

\* compute_mape, metrics.py 40-60: the mean over the masked pairs of
\* |y_true - y_pred| / |y_true|, times 100; NaN arithmetic gives NaN.
compute_mape(y_true, y_pred) ==
    LET mask == MapeMask(y_true)
        ratio == [i \in 1..Len(y_true) |->
                    IF i \in mask /\ ~y_true[i].nan /\ ~y_pred[i].nan
                    THEN QDiv(QAbs(QSub(y_true[i], y_pred[i])), QAbs(y_true[i]))
                    ELSE QNaN]
    IN IF mask = {} THEN QNaN
       ELSE IF \E i \in mask : ratio[i].nan THEN QNaN
       ELSE QMul(QDivInt(SumOver(mask, ratio), Cardinality(mask)), Q(100, 1))

\* bins: int = 50, metrics.py 117
JsBins == 50

\* vals[~np.isnan(vals)]
DropNaNs(vals) == SelectSeq(vals, LAMBDA x : ~x.nan)

\* metrics.py 144-146, and np.histogram's widening of an empty range to
\* (min - 0.5, max + 0.5).
HistRange(p, q) ==
    LET all == p \o q
        lo == all[CHOOSE i \in 1..Len(all) : \A j \in 1..Len(all) : QLeq(all[i], all[j])]
        hi == all[CHOOSE i \in 1..Len(all) : \A j \in 1..Len(all) : QLeq(all[j], all[i])]
    IN IF QEq(lo, hi) THEN <<QSub(lo, Q(1, 2)), QAdd(hi, Q(1, 2))>> ELSE <<lo, hi>>

\* The bin (1..JsBins) of a value of the range: bins are half-open but for
\* the last one, which holds the upper bound.
BinOf(x, range) ==
    IF QEq(x, range[2]) THEN JsBins
    ELSE FloorQ(QDiv(QMul(QSub(x, range[1]), Q(JsBins, 1)),
                     QSub(range[2], range[1]))) + 1

\* np.histogram(vals, bins, range, density=True), each density multiplied
\* by the bin width: the share of the values in each bin.  Adding epsilon
\* and normalising (metrics.py 151-156) maps these shares by one affine
\* function, the same for both histograms.
HistogramOfBins(bin, n) ==
    [b \in 1..JsBins |-> Q(Cardinality({i \in 1..n : bin[i] = b}), n)]

Histogram(vals, range) ==
    HistogramOfBins([i \in 1..Len(vals) |-> BinOf(vals[i], range)], Len(vals))

\* Mutant of MixtureHist: the first histogram taken as the reference.
MixtureHistFirst(p_hist, q_hist) == p_hist

\* m_hist = 0.5 * (p_hist + q_hist), metrics.py 158
MixtureHist(p_hist, q_hist) ==
    [b \in 1..JsBins |-> QDivInt(QAdd(p_hist[b], q_hist[b]), 2)]

\* entropy(pk, qk), the Kullback-Leibler divergence of pk from qk: its
\* logarithms are not evaluated, the value is kept as the pair it is a
\* function of.
Entropy(pk, qk) == <<pk, qk>>

\* 0.5 * x + 0.5 * y, metrics.py 160: the sum of the two terms, which does
\* not depend on their order.
HalfSum(x, y) == {x, y}

JsOfHists(p_hist, q_hist, m_hist) ==
    [nan |-> FALSE, js_div |-> HalfSum(Entropy(p_hist, m_hist), Entropy(q_hist, m_hist))]

JsOfPair(p_hist, q_hist) == JsOfHists(p_hist, q_hist, MixtureHist(p_hist, q_hist))

JsOfRange(p, q, range) == JsOfPair(Histogram(p, range), Histogram(q, range))

JsOfValid(p, q) ==
    IF Len(p) = 0 \/ Len(q) = 0 THEN [nan |-> TRUE, js_div |-> {}]
    ELSE JsOfRange(p, q, HistRange(p, q))

\* compute_js_divergence, metrics.py 114-162, with the default bins and
\* range: NaN when one of the sample sets is empty once its NaNs are
\* dropped.
compute_js_divergence(p_vals, q_vals) == JsOfValid(DropNaNs(p_vals), DropNaNs(q_vals))

\* Mutant of NullIfNaN: the value rounded without the NaN check.
NullIfNaNUnguarded(x) == [null |-> FALSE, nan |-> x.nan, of |-> x]

\* round(x, digits) if not np.isnan(x) else None, for a value x that is
\* kept symbolic: the field holds the value it is the rounding of.
NullIfNaN(x) == [null |-> x.nan, nan |-> FALSE, of |-> x]

----------------------------------------------------------------------------
(* BaseEvaluator.find_task_file, base.py 53-75.  A file is what the glob   *)
(* of the task's pattern finds in the input directory: nothing, or the     *)
(* most recently modified match, read by pd.read_csv.                      *)

NoFile == [found |-> FALSE, has_date |-> FALSE, rows |-> <<>>]
Csv(has_date, rows) == [found |-> TRUE, has_date |-> has_date, rows |-> rows]

\* A file of the input directory.  Its name is prefix_stamp_suffix; mtime
\* is its st_mtime and csv what pd.read_csv reads from it.
DirFile(prefix, stamp, suffix, mtime, csv) ==
    [prefix |-> prefix, stamp |-> stamp, suffix |-> suffix, mtime |-> mtime, csv |-> csv]

\* Whether a file name matches a pattern of the form prefix_*_suffix, the
\* form of every file_pattern of TASK_CONFIGS.
GlobMatch(f, file_pattern) == file_pattern = f.prefix \o "_*_" \o f.suffix

\* list(input_dir.glob(file_pattern)), base.py 67
Glob(dir, file_pattern) == {f \in dir : GlobMatch(f, file_pattern)}

\* Mutant of LatestOf: the least recently modified match.
OldestOf(matches) == {f \in matches : \A g \in matches : f.mtime <= g.mtime}

\* max(matches, key=st_mtime), base.py 75: among matches of equal greatest
\* mtime the first in glob order, which the file system decides - any of
\* them.
LatestOf(matches) == {f \in matches : \A g \in matches : g.mtime <= f.mtime}

\* find_task_file, base.py 53-75: the outcomes the call can have.
find_task_file(dir, file_pattern) ==
    IF Glob(dir, file_pattern) = {} THEN {Raised("FileNotFoundError")}
    ELSE {Returned(f) : f \in LatestOf(Glob(dir, file_pattern))}

\* What pd.read_csv then reads (pointwise.py 66-69), NoFile when
\* find_task_file raised.
Loaded(out) == IF out.raised # "" THEN NoFile ELSE out.val.csv

\* The outcome of find_task_file as evaluate_task sees it, csv being what
\* the pattern finds.
FindOutcome(csv) ==
    IF ~csv.found THEN Raised("FileNotFoundError") ELSE Returned(csv)

----------------------------------------------------------------------------
(* PointwiseEvaluator.evaluate_task, pointwise.py 42-137 *)

ErrorRecord(msg, stats) == [error |-> msg, cleaning_stats |-> stats]

\* A missing value (NaN) of the date column; dates are numbers yyyymm, so
\* 0 is none of them.
NoDate == 0

\* The group keys of groupby('date'): the distinct dates, a missing date
\* left out (dropna).
Dates(rows) == {rows[i].date : i \in 1..Len(rows)} \ {NoDate}

\* Mutant of DailyMeans: the first row of each date taken for its mean.
DailyFirsts(rows, field) ==
    LET ds == [i \in 1..Cardinality(Dates(rows)) |->
                 CHOOSE d \in Dates(rows) :
                    Cardinality({e \in Dates(rows) : e < d}) = i - 1]
    IN [k \in 1..Len(ds) |->
          QOfNum(rows[CHOOSE i \in 1..Len(rows) :
                        /\ rows[i].date = ds[k]
                        /\ \A j \in 1..(i - 1) : rows[j].date # ds[k]][field])]

\* groupby('date')[col].mean(): one mean per distinct date, by ascending date.
DailyMeans(rows, field) ==
    LET ds == [i \in 1..Cardinality(Dates(rows)) |->
                 CHOOSE d \in Dates(rows) :
                    Cardinality({e \in Dates(rows) : e < d}) = i - 1]
        Of(d) == {i \in 1..Len(rows) : rows[i].date = d}
        vals == [i \in 1..Len(rows) |-> QOfNum(rows[i][field])]
    IN [k \in 1..Len(ds) |->
          QDivInt(SumOver(Of(ds[k]), vals), Cardinality(Of(ds[k])))]

\* pointwise.py 90-129: the metrics record of the cleaned rows.
PointwiseRecord(stats, has_date, n_dates, rmse, sp, js_div, mae) ==
    [spearman_rho |-> NullIfNaN(sp.rho),
     spearman_p |-> NullIfNaN(sp.p),
     js_divergence |-> NullIfNaN(js_div),
     rmse |-> [null |-> rmse.nan, nan |-> FALSE, sq |-> rmse.sq],
     mae |-> RoundOrNull(mae, 100),
     n_samples |-> stats.final_rows,
     n_time_points |-> IF has_date THEN n_dates ELSE 0,
     cleaning_stats |-> stats]

\* Mutant of PointwiseSeries: the correlation taken over the raw samples
\* whether or not there is a date column.
PointwiseSeriesRaw(stats, has_date, n_dates, human_vals, llm_vals, daily_h, daily_l) ==
    PointwiseRecord(stats, has_date, n_dates,
                    compute_rmse(human_vals, llm_vals),
                    compute_temporal_spearman(human_vals, llm_vals),
                    compute_js_divergence(human_vals, llm_vals),
                    compute_mae(human_vals, llm_vals))

PointwiseSeries(stats, has_date, n_dates, human_vals, llm_vals, daily_h, daily_l) ==
    PointwiseRecord(stats, has_date, n_dates,
                    compute_rmse(human_vals, llm_vals),
                    compute_temporal_spearman(IF has_date THEN daily_h ELSE human_vals,
                                              IF has_date THEN daily_l ELSE llm_vals),
                    compute_js_divergence(human_vals, llm_vals),
                    compute_mae(human_vals, llm_vals))

PointwiseMetrics(rows, stats, has_date) ==
    PointwiseSeries(stats, has_date, Cardinality(Dates(rows)),
                    [i \in 1..Len(rows) |-> QOfNum(rows[i].human)],
                    [i \in 1..Len(rows) |-> QOfNum(rows[i].llm)],
                    DailyMeans(rows, "human"), DailyMeans(rows, "llm"))

\* pointwise.py 73-88
PointwiseAfterClean(cl, has_date) ==
    IF cl.raised # "" THEN Raised(cl.raised)
    ELSE IF cl.val.stats.final_rows = 0
    THEN Returned(ErrorRecord("No valid samples after cleaning", cl.val.stats))
    ELSE Returned(PointwiseMetrics(cl.val.rows, cl.val.stats, has_date))

PointwiseEvaluate(name, task_config, csv) ==
    IF FindOutcome(csv).raised # "" THEN Raised(FindOutcome(csv).raised)
    ELSE PointwiseAfterClean(clean_task_data(csv.rows, name), csv.has_date)

----------------------------------------------------------------------------
(* DistributionEvaluator.evaluate_task, distribution.py 39-141 *)

\* Mutant of IsHit: the upper bound forgotten.
IsHitLowerOnly(ecdf, conf) == (100 - conf) * ecdf.d <= 200 * ecdf.n

\* Mutant of IsHit: both comparisons strict.
IsHitStrict(ecdf, conf) ==
    /\ (100 - conf) * ecdf.d < 200 * ecdf.n
    /\ 200 * ecdf.n < (100 + conf) * ecdf.d

\* lower_bound <= ecdf <= upper_bound with lower_bound = (1 - C) / 2 and
\* upper_bound = (1 + C) / 2, the confidence level C given in percent.
IsHit(ecdf, conf) ==
    /\ (100 - conf) * ecdf.d <= 200 * ecdf.n
    /\ 200 * ecdf.n <= (100 + conf) * ecdf.d

\* np.mean(samples): TypeError for a list that holds a string.
RECURSIVE SumV(_)
SumV(l) == IF l = <<>> THEN 0 ELSE Head(l).v + SumV(Tail(l))

MeanPred(l) ==
    IF \E i \in 1..Len(l) : l[i].k # "num" THEN Raised("TypeError")
    ELSE Returned(Q(SumV(l), Len(l)))

\* One pass of the loop body, distribution.py 91-111, for row r: skipped
\* (no entry), an entry of eval_results, or an exception.
EvalRow(r, conf) ==
    LET t == [k |-> "num", v |-> r.human.v]
        e == calculate_ecdf(r.llm, t)
        m == MeanPred(r.llm)
    IN IF e.raised # "" THEN [raised |-> e.raised, skip |-> FALSE]
       ELSE IF e.none THEN [raised |-> "", skip |-> TRUE]
       ELSE IF m.raised # "" THEN [raised |-> m.raised, skip |-> FALSE]
       ELSE [raised |-> "", skip |-> FALSE, idx |-> r.idx, ecdf |-> e.q,
             is_hit |-> IsHit(e.q, conf), truth |-> Q(r.human.v, 1),
             mean_pred |-> m.val]

\* coverage_rate = hit_count / total_valid
CoverageRate(eval_results) ==
    Q(Cardinality({i \in 1..Len(eval_results) : eval_results[i].is_hit}),
      Len(eval_results))

\* The loop over the cleaned rows, and the list eval_results it builds.
PerRow(rows, conf) == [i \in 1..Len(rows) |-> EvalRow(rows[i], conf)]
EvalResults(per_row) == SelectSeq(per_row, LAMBDA x : ~x.skip)

\* distribution.py 113-135
DistributionRecord(eval_results, stats) ==
    IF eval_results = <<>>
    THEN ErrorRecord("No valid ECDF calculation results", stats)
    ELSE [mae |-> RoundOrNull(
                    compute_mae([i \in 1..Len(eval_results) |-> eval_results[i].truth],
                                [i \in 1..Len(eval_results) |-> eval_results[i].mean_pred]),
                    100),
          coverage_rate |-> RoundUnguarded(CoverageRate(eval_results), 10000),
          n_samples |-> Len(eval_results),
          cleaning_stats |-> stats]

\* distribution.py 91-111: an exception of the loop body leaves the call.
DistributionLoop(per_row, stats) ==
    LET errs == {i \in 1..Len(per_row) : per_row[i].raised # ""}
    IN IF errs # {}
       THEN Raised(per_row[CHOOSE i \in errs : \A j \in errs : i <= j].raised)
       ELSE Returned(DistributionRecord(EvalResults(per_row), stats))

\* distribution.py 70-86
DistributionAfterClean(cl, conf) ==
    IF cl.raised # "" THEN Raised(cl.raised)
    ELSE IF cl.val.stats.final_rows = 0
    THEN Returned(ErrorRecord("No valid samples after cleaning", cl.val.stats))
    ELSE DistributionLoop(PerRow(cl.val.rows, conf), cl.val.stats)

DistributionEvaluate(name, task_config, csv, conf) ==
    IF FindOutcome(csv).raised # "" THEN Raised(FindOutcome(csv).raised)
    ELSE DistributionAfterClean(clean_distribution_data(csv.rows, name), conf)

----------------------------------------------------------------------------
(* run_eval, evaluate.py 48-97 *)

DefaultTasks == <<"spending", "labor", "credit">>

\* The body of the try block, evaluate.py 77-83: get_task_config is
\* evaluated first, as an argument of the call of evaluate_task.
EvaluateWith(type, conf, name, cfg, csv) ==
    IF cfg.raised # "" THEN Raised(cfg.raised)
    ELSE IF type = "pointwise" THEN PointwiseEvaluate(name, cfg.val, csv)
    ELSE DistributionEvaluate(name, cfg.val, csv, conf)

EvaluateTaskCall(type, conf, name, csv) ==
    EvaluateWith(type, conf, name, get_task_config(name), csv)

\* Mutant of ExceptionsCaught: only the missing file handled.
ExceptionsCaughtFileOnly(exc) == exc = "FileNotFoundError"

\* except Exception as e: results[task_name] = {"error": str(e)}
ExceptionsCaught(exc) == TRUE

\* One iteration of the loop over tasks: the new results dict, or the
\* exception that leaves run_eval.
StoreOutcome(res, name, out) ==
    IF out.raised = "" THEN Returned((name :> out.val) @@ res)
    ELSE IF ExceptionsCaught(out.raised)
    THEN Returned((name :> [error |-> out.raised]) @@ res)
    ELSE Raised(out.raised)

RunEvalIteration(res, type, conf, name, csv) ==
    StoreOutcome(res, name, EvaluateTaskCall(type, conf, name, csv))

----------------------------------------------------------------------------
(* Inputs *)

SeqsUpTo(S, n) == UNION {[1..k -> S] : k \in 0..n}

TaskNames == {"spending", "labor", "credit", "other"}

Pending == [raised |-> "pending", val |-> <<>>]

\* "<think>reasoning</think>\n42"
ThinkThen(n) == Text(<<ThinkOpen, Word, ThinkClose, Ws, NumTok(n)>>)
Number(n) == Text(<<NumTok(n)>>)
\* "[10, 20, 30]"
ListText(a, b, c) ==
    Text(<<LB, NumTok(a), Comma, Ws, NumTok(b), Comma, Ws, NumTok(c), RB>>)
\* "[1,2,"
Truncated == Text(<<LB, NumTok(1), Comma, NumTok(2), Comma>>)
\* "Here: [0, 100, 101]"
Prefixed == Text(<<Word, Ws, LB, NumTok(0), Comma, Ws, NumTok(100), Comma, Ws,
                   NumTok(101), RB>>)
\* "[101, -1]"
OutOfRange == Text(<<LB, NumTok(101), Comma, Ws, NumTok(-1), RB>>)
\* "['a', '20', 50, 101]"
Mixed == Text(<<LB, StrTok, Comma, Ws, NumStrTok(20), Comma, Ws, NumTok(50), Comma, Ws,
                NumTok(101), RB>>)
\* "not a number"
NotANumber == Text(<<Word, Ws, Word, Ws, Word>>)
\* A list of LongList numbers: `t` at position pos, `other` elsewhere.
LongListText(t, other, pos) ==
    Text([i \in 1..(2 * LongList + 1) |->
            IF i = 1 THEN LB
            ELSE IF i = 2 * LongList + 1 THEN RB
            ELSE IF i % 2 = 1 THEN Comma
            ELSE IF i = 2 * pos THEN NumTok(t) ELSE NumTok(other)])

\* Rows handed to the cleaning functions.
CleanRows ==
    {Row("u1", 202401, h, l) : <<h, l>> \in
        {<<HNull, Number(42)>>, <<HBlank, ListText(10, 20, 30)>>,
         <<HText, Number(42)>>, <<HText, ListText(10, 20, 30)>>,
         <<HNum(40), ThinkThen(42)>>, <<HNum(20), ListText(10, 20, 30)>>,
         <<HNum(40), NotANumber>>, <<HNum(20), Truncated>>,
         <<HNum(40), NaCell>>, <<HNum(20), Prefixed>>,
         <<HNum(20), OutOfRange>>, <<HNum(20), Mixed>>,
         <<HNum(40), Number(0)>>, <<HNum(40), Number(100)>>,
         <<HNum(40), Number(101)>>, <<HNum(40), Number(-1)>>}}

\* Rows handed to clean_task_data under the iqr policy: typical values, a
\* very large and a very negative value in either column, text as truth.
IqrRows ==
    {Row("u1", 202401, h, Number(l)) : <<h, l>> \in
        {<<HNum(0), 0>>, <<HNum(10), 10>>, <<HNum(1000), 0>>, <<HNum(0), 1000>>,
         <<HNum(-1000), -1000>>, <<HText, 0>>}}

\* Elements of the arrays handed to the metric functions.
MetricValues == {QNaN, Q(0, 1), Q(-2, 1), Q(3, 1)}

\* Elements of a sample list handed to calculate_ecdf, and truths.
Elem(k, n) == [k |-> k, v |-> n]
EcdfElems == {Elem("num", 10), Elem("num", 20), Elem("num", 30),
              Elem("numstr", 20), Elem("str", 0), Elem("none", 0)}
EcdfTruths == {Elem("num", 5), Elem("num", 10), Elem("num", 20),
               Elem("num", 30), Elem("num", 35), Elem("str", 0), Elem("none", 0)}

\* Rows of the files read by evaluate_task.
TaskRows ==
    {Row("u1", 202401, HNum(40), ThinkThen(42)),
     Row("u2", 202402, HNum(50), Number(45)),
     Row("u6", 202401, HNum(60), Number(55)),
     Row("u1", 202401, HNum(20), ListText(10, 20, 30)),
     Row("u2", 202402, HNum(20), LongListText(20, 10, 1)),
     Row("u3", 202402, HNum(100), LongListText(100, 0, LongList)),
     Row("u3", 202401, HNum(30), ListText(10, 20, 101)),
     Row("u4", 202401, HNull, Number(42)),
     Row("u4", 202402, HText, ListText(10, 20, 30)),
     Row("u5", 202401, HNum(40), NotANumber),
     Row("u5", 202402, HNum(20), Truncated)}

\* Rows of the files read by the pointwise evaluator: numeric rows of two
\* dates and of no date, one row out of the range of task labor.
PointFileRows ==
    {Row("u1", 202401, HNum(40), ThinkThen(42)),
     Row("u2", 202401, HNum(60), Number(45)),
     Row("u3", 202402, HNum(50), Number(55)),
     Row("u4", 202402, HNum(30), Number(101)),
     Row("u5", NoDate, HNum(20), Number(10))}

TaskFiles ==
    {NoFile} \cup {Csv(d, r) : d \in BOOLEAN, r \in SeqsUpTo(TaskRows, MaxFileRows)}

ConfidenceLevels == {0, 50, 90, 100}

\* Files of the input directory of run_eval.
RunFiles ==
    {NoFile, Csv(TRUE, <<>>),
     Csv(TRUE, <<Row("u1", 202401, HNum(40), ThinkThen(42))>>),
     Csv(TRUE, <<Row("u1", 202401, HNum(20), ListText(10, 20, 30))>>),
     Csv(TRUE, <<Row("u4", 202401, HNull, Number(42))>>)}

\* Input directories of find_task_file: up to MaxFiles files of different
\* names, each with a modification time and a content.
FileNames == [prefix : {"labor", "credit"}, stamp : {"a", "b"},
              suffix : {"withHumanData.csv", "raw.csv"}]
FileContents == {Csv(TRUE, <<>>), Csv(TRUE, <<Row("u1", 202401, HNum(40), ThinkThen(42))>>)}
Directories ==
    UNION {{ {DirFile(n.prefix, n.stamp, n.suffix, a[n].mtime, a[n].csv) : n \in N} :
             a \in [N -> [mtime : 1..MaxMtime, csv : FileContents]] } :
           N \in {M \in SUBSET FileNames : Cardinality(M) <= MaxFiles}}

\* Tokens of the texts handed to extract_samples on its own, and the texts:
\* a number and a word never stand side by side in a text.
ExtractTokens == {LB, RB, Comma, Ws, NumTok(1), Word}
WellLexed(toks) ==
    \A i \in 1..(Len(toks) - 1) : ~({toks[i], toks[i + 1]} \subseteq {NumTok(1), Word})
ExtractTexts ==
    {NaCell} \cup {Text(t) : t \in {u \in SeqsUpTo(ExtractTokens, MaxToks) : WellLexed(u)}}

\* A value of a key column: an integer, or a text given by its characters.
IntVal(n) == [type |-> "int", n |-> n, s |-> <<>>]
StrVal(s) == [type |-> "str", n |-> 0, s |-> s]

\* The output file: absent, or its data lines in order; readable is whether
\* pd.read_csv and the two column lookups succeed on it.
NoCsv == [exists |-> FALSE, readable |-> FALSE, rows |-> <<>>]
UnreadableCsv == [exists |-> TRUE, readable |-> FALSE, rows |-> <<>>]
NotRead == [read |-> FALSE, rows |-> <<>>]

\* The keys of the rows of df: an integer userid, a text userid of digits,
\* a text userid with a letter, at two dates.
ResumeKeys ==
    {<<IntVal(7), IntVal(202401)>>, <<StrVal(<<"0", "0", "7">>), IntVal(202401)>>,
     <<StrVal(<<"A", "1">>), IntVal(202402)>>, <<IntVal(7), IntVal(202402)>>}
SaveFrame(n) == [i \in 1..n |-> <<IntVal(i), IntVal(202401)>>]

\* What a call of chat.completions.create gives: a response with a first
\* choice, with or without usage; a response without choices; an exception.
Usage(p, c) == [present |-> TRUE, prompt_tokens |-> p, completion_tokens |-> c,
                total_tokens |-> p + c]
NoUsage == [present |-> FALSE, prompt_tokens |-> 0, completion_tokens |-> 0,
            total_tokens |-> 0]
Response(content, usage, duration) ==
    [kind |-> "response", choices |-> 1, content |-> content, usage |-> usage,
     duration |-> duration, exc |-> ""]
EmptyResponse ==
    [kind |-> "response", choices |-> 0, content |-> <<>>, usage |-> NoUsage,
     duration |-> 0, exc |-> ""]
CreateRaises(exc) ==
    [kind |-> "raised", choices |-> 0, content |-> <<>>, usage |-> NoUsage,
     duration |-> 0, exc |-> exc]
InFlight ==
    [kind |-> "in flight", choices |-> 0, content |-> <<>>, usage |-> NoUsage,
     duration |-> 0, exc |-> ""]
CreateOutcomes ==
    {Response(c, u, d) : c \in {<<"42">>, <<"no answer">>},
                         u \in {Usage(7, 2), NoUsage}, d \in {0, 1}}
      \cup {EmptyResponse}
      \cup {CreateRaises(x) : x \in {"APIConnectionError", "RateLimitError"}}

\* The overrides handed to get_task_config: none, another cleaning method,
\* another range.
OverridesMenu ==
    <<NoOverrides, [cleaning_method |-> "none"], [valid_range |-> <<10, 90>>]>>

\* The tasks, the DataFrame and the file of the calls on the task table.
ConfigTasks == {"labor", "spending", "other"}
ConfigFrame ==
    <<Row("u1", 202401, HNum(40), Number(95)), Row("u2", 202401, HNum(20), ListText(10, 20, 30))>>
ConfigFile == Csv(TRUE, ConfigFrame)

\* The state of the calls outside the evaluators when none is under way.
ExtractIdle == arg_text = NaCell
ConfigIdle == call_log = <<>>
\* llm_client.py 29: max_retries=3
DefaultMaxRetries == 3
\* main.py 287: config.get('save_every', 100)
DefaultSaveEvery == 100
LlmIdle == max_retries = DefaultMaxRetries /\ retry_count = 0 /\ requests = <<>>
RunIdle ==
    /\ input_rows = <<>> /\ output_csv = NoCsv /\ existing = NotRead
    /\ processed_set = {} /\ df_to_process = <<>> /\ task_state = <<>>
    /\ sem_value = 0 /\ sem_waiters = <<>> /\ completed = <<>> /\ consumed = 0
    /\ pending_results = <<>> /\ sent = <<>> /\ max_concurrent = 0
    /\ save_every = 0 /\ debug_limit = 0 /\ run_no = 0 /\ runs_allowed = 0
OthersIdle == ExtractIdle /\ ConfigIdle /\ LlmIdle /\ RunIdle

\* The state of the evaluators when no call is under way.
EvalIdle ==
    /\ arg_true = <<>> /\ arg_pred = <<>> /\ metric_out = <<>> /\ input_dir = {}
    /\ df = <<>> /\ task_name = "" /\ cleaned = Pending
    /\ samples = <<>> /\ truth = Elem("none", 0) /\ ecdf_out = Pending
    /\ eval_type = "" /\ confidence_level = 90 /\ tasks = <<>>
    /\ file = NoFile /\ task_i = 0 /\ results = <<>>

\* Task lists without repetition.
TaskLists ==
    {l \in SeqsUpTo(TaskNames, MaxTasks) : \A i, j \in 1..Len(l) : i # j => l[i] # l[j]}

----------------------------------------------------------------------------
(* Specification of the cleaning functions: one call of clean_task_data or *)
(* clean_distribution_data on a DataFrame.                                  *)

InitClean ==
    /\ arg_true = <<>> /\ arg_pred = <<>> /\ metric_out = <<>> /\ input_dir = {}
    /\ pc = "call"
    /\ TASK_CONFIGS = TaskConfigsAtLoad
    /\ OthersIdle
    /\ df \in SeqsUpTo(CleanRows, MaxRows)
    /\ task_name \in TaskNames
    /\ cleaned = Pending
    /\ samples = <<>> /\ truth = Elem("none", 0) /\ ecdf_out = Pending
    /\ eval_type = "" /\ confidence_level = 90 /\ tasks = <<>>
    /\ file = NoFile /\ task_i = 0 /\ results = <<>> /\ ret = Pending

CleanPoint ==
    /\ pc = "call"
    /\ cleaned' = clean_task_data(df, task_name)
    /\ pc' = "point"
    /\ UNCHANGED <<arg_true, arg_pred, metric_out, input_dir>>
    /\ UNCHANGED other_vars
    /\ UNCHANGED <<TASK_CONFIGS, df, task_name, samples, truth, ecdf_out,
                   eval_type, confidence_level, tasks, file, task_i, results, ret>>

CleanDistribution ==
    /\ pc = "call"
    /\ cleaned' = clean_distribution_data(df, task_name)
    /\ pc' = "distribution"
    /\ UNCHANGED <<arg_true, arg_pred, metric_out, input_dir>>
    /\ UNCHANGED other_vars
    /\ UNCHANGED <<TASK_CONFIGS, df, task_name, samples, truth, ecdf_out,
                   eval_type, confidence_level, tasks, file, task_i, results, ret>>

NextClean == CleanPoint \/ CleanDistribution

SpecClean == InitClean /\ [][NextClean]_vars

----------------------------------------------------------------------------
(* Specification of the list parser: one call of extract_samples on a text. *)

InitExtract ==
    /\ arg_true = <<>> /\ arg_pred = <<>> /\ metric_out = <<>> /\ input_dir = {}
    /\ pc = "text"
    /\ TASK_CONFIGS = TaskConfigsAtLoad
    /\ arg_text \in ExtractTexts
    /\ ConfigIdle /\ LlmIdle /\ RunIdle
    /\ df = <<>> /\ task_name = "" /\ cleaned = Pending
    /\ samples = <<>> /\ truth = Elem("none", 0) /\ ecdf_out = Pending
    /\ eval_type = "" /\ confidence_level = 90 /\ tasks = <<>>
    /\ file = NoFile /\ task_i = 0 /\ results = <<>> /\ ret = Pending

ExtractSamples ==
    /\ pc = "text"
    /\ ret' = (IF extract_samples(arg_text).raised # ""
               THEN Raised(extract_samples(arg_text).raised)
               ELSE Returned(extract_samples(arg_text)))
    /\ pc' = "extracted"
    /\ UNCHANGED <<arg_true, arg_pred, metric_out, input_dir, arg_text>>
    /\ UNCHANGED <<config_vars, llm_vars, run_vars>>
    /\ UNCHANGED <<TASK_CONFIGS, df, task_name, cleaned, samples, truth, ecdf_out,
                   eval_type, confidence_level, tasks, file, task_i, results>>

NextExtract == ExtractSamples

SpecExtract == InitExtract /\ [][NextExtract]_vars

----------------------------------------------------------------------------
(* Specification of the iqr policy: one call of clean_task_data for task   *)
(* spending on a DataFrame long enough for the fences to remove rows.      *)

InitIqr ==
    /\ arg_true = <<>> /\ arg_pred = <<>> /\ metric_out = <<>> /\ input_dir = {}
    /\ pc = "call"
    /\ TASK_CONFIGS = TaskConfigsAtLoad
    /\ OthersIdle
    /\ df \in SeqsUpTo(IqrRows, MaxIqrRows)
    /\ task_name = "spending"
    /\ cleaned = Pending
    /\ samples = <<>> /\ truth = Elem("none", 0) /\ ecdf_out = Pending
    /\ eval_type = "" /\ confidence_level = 90 /\ tasks = <<>>
    /\ file = NoFile /\ task_i = 0 /\ results = <<>> /\ ret = Pending

NextIqr == CleanPoint

SpecIqr == InitIqr /\ [][NextIqr]_vars

----------------------------------------------------------------------------
(* Specification of the metric functions: one call of one of them on two   *)
(* arrays of the same length.                                              *)

InitMetrics ==
    /\ pc = "metric"
    /\ \E n \in 0..MaxLen :
          /\ arg_true \in [1..n -> MetricValues]
          /\ arg_pred \in [1..n -> MetricValues]
    /\ metric_out = <<>> /\ input_dir = {}
    /\ TASK_CONFIGS = TaskConfigsAtLoad
    /\ OthersIdle
    /\ df = <<>> /\ task_name = "" /\ cleaned = Pending
    /\ samples = <<>> /\ truth = Elem("none", 0) /\ ecdf_out = Pending
    /\ eval_type = "" /\ confidence_level = 90 /\ tasks = <<>>
    /\ file = NoFile /\ task_i = 0 /\ results = <<>> /\ ret = Pending

\* metrics.py 17-37
ComputeMae ==
    /\ pc = "metric"
    /\ metric_out' = compute_mae(arg_true, arg_pred)
    /\ pc' = "mae"
    /\ UNCHANGED <<arg_true, arg_pred, input_dir>>
    /\ UNCHANGED other_vars
    /\ UNCHANGED <<TASK_CONFIGS, df, task_name, cleaned, samples, truth, ecdf_out,
                   eval_type, confidence_level, tasks, file, task_i, results, ret>>

\* metrics.py 63-83
ComputeRmse ==
    /\ pc = "metric"
    /\ metric_out' = compute_rmse(arg_true, arg_pred)
    /\ pc' = "rmse"
    /\ UNCHANGED <<arg_true, arg_pred, input_dir>>
    /\ UNCHANGED other_vars
    /\ UNCHANGED <<TASK_CONFIGS, df, task_name, cleaned, samples, truth, ecdf_out,
                   eval_type, confidence_level, tasks, file, task_i, results, ret>>

\* metrics.py 40-60
ComputeMape ==
    /\ pc = "metric"
    /\ metric_out' = compute_mape(arg_true, arg_pred)
    /\ pc' = "mape"
    /\ UNCHANGED <<arg_true, arg_pred, input_dir>>
    /\ UNCHANGED other_vars
    /\ UNCHANGED <<TASK_CONFIGS, df, task_name, cleaned, samples, truth, ecdf_out,
                   eval_type, confidence_level, tasks, file, task_i, results, ret>>

\* metrics.py 86-111
ComputeTemporalSpearman ==
    /\ pc = "metric"
    /\ metric_out' = compute_temporal_spearman(arg_true, arg_pred)
    /\ pc' = "spearman"
    /\ UNCHANGED <<arg_true, arg_pred, input_dir>>
    /\ UNCHANGED other_vars
    /\ UNCHANGED <<TASK_CONFIGS, df, task_name, cleaned, samples, truth, ecdf_out,
                   eval_type, confidence_level, tasks, file, task_i, results, ret>>

\* metrics.py 114-162
ComputeJsDivergence ==
    /\ pc = "metric"
    /\ metric_out' = compute_js_divergence(arg_true, arg_pred)
    /\ pc' = "js"
    /\ UNCHANGED <<arg_true, arg_pred, input_dir>>
    /\ UNCHANGED other_vars
    /\ UNCHANGED <<TASK_CONFIGS, df, task_name, cleaned, samples, truth, ecdf_out,
                   eval_type, confidence_level, tasks, file, task_i, results, ret>>

NextMetrics ==
    \/ ComputeMae
    \/ ComputeRmse
    \/ ComputeMape
    \/ ComputeTemporalSpearman
    \/ ComputeJsDivergence

SpecMetrics == InitMetrics /\ [][NextMetrics]_vars

----------------------------------------------------------------------------
(* Specification of calculate_ecdf: one call. *)

InitEcdf ==
    /\ arg_true = <<>> /\ arg_pred = <<>> /\ metric_out = <<>> /\ input_dir = {}
    /\ pc = "call"
    /\ TASK_CONFIGS = TaskConfigsAtLoad
    /\ OthersIdle
    /\ samples \in SeqsUpTo(EcdfElems, MaxSamples)
    /\ truth \in EcdfTruths
    /\ ecdf_out = Pending
    /\ df = <<>> /\ task_name = "" /\ cleaned = Pending
    /\ eval_type = "" /\ confidence_level = 90 /\ tasks = <<>>
    /\ file = NoFile /\ task_i = 0 /\ results = <<>> /\ ret = Pending

CalculateEcdf ==
    /\ pc = "call"
    /\ ecdf_out' = calculate_ecdf(samples, truth)
    /\ pc' = "ecdf"
    /\ UNCHANGED <<arg_true, arg_pred, metric_out, input_dir>>
    /\ UNCHANGED other_vars
    /\ UNCHANGED <<TASK_CONFIGS, df, task_name, cleaned, samples, truth,
                   eval_type, confidence_level, tasks, file, task_i, results, ret>>

NextEcdf == CalculateEcdf

SpecEcdf == InitEcdf /\ [][NextEcdf]_vars

----------------------------------------------------------------------------
(* Specification of evaluate_task: one call, by either evaluator. *)

InitTask ==
    /\ arg_true = <<>> /\ arg_pred = <<>> /\ metric_out = <<>> /\ input_dir = {}
    /\ pc = "call"
    /\ TASK_CONFIGS = TaskConfigsAtLoad
    /\ OthersIdle
    /\ eval_type \in {"pointwise", "distribution"}
    /\ confidence_level \in ConfidenceLevels
    /\ task_name \in TaskNames
    /\ file \in TaskFiles
    /\ ret = Pending
    /\ df = <<>> /\ cleaned = Pending
    /\ samples = <<>> /\ truth = Elem("none", 0) /\ ecdf_out = Pending
    /\ tasks = <<>> /\ task_i = 0 /\ results = <<>>

EvaluateTask ==
    /\ pc = "call"
    /\ ret' = EvaluateTaskCall(eval_type, confidence_level, task_name, file)
    /\ pc' = "evaluated"
    /\ UNCHANGED <<arg_true, arg_pred, metric_out, input_dir>>
    /\ UNCHANGED other_vars
    /\ UNCHANGED <<TASK_CONFIGS, df, task_name, cleaned, samples, truth, ecdf_out,
                   eval_type, confidence_level, tasks, file, task_i, results>>

NextTask == EvaluateTask

SpecTask == InitTask /\ [][NextTask]_vars

----------------------------------------------------------------------------
(* Specification of the temporal correlation: one call of                  *)
(* compute_temporal_spearman on two arrays, or one call of evaluate_task,  *)
(* which applies it to the daily means.                                    *)

InitSpearman == InitMetrics \/ InitTask

NextSpearman == ComputeTemporalSpearman \/ EvaluateTask

SpecSpearman == InitSpearman /\ [][NextSpearman]_vars

----------------------------------------------------------------------------
(* Specification of the pointwise evaluator: one call of evaluate_task of  *)
(* PointwiseEvaluator on a file of numeric rows of several dates.          *)

InitPointwise ==
    /\ arg_true = <<>> /\ arg_pred = <<>> /\ metric_out = <<>> /\ input_dir = {}
    /\ pc = "call"
    /\ TASK_CONFIGS = TaskConfigsAtLoad
    /\ OthersIdle
    /\ eval_type = "pointwise"
    /\ confidence_level = 90
    /\ task_name \in {"labor", "spending"}
    /\ file \in {Csv(d, r) : d \in BOOLEAN, r \in SeqsUpTo(PointFileRows, MaxPointRows)}
    /\ ret = Pending
    /\ df = <<>> /\ cleaned = Pending
    /\ samples = <<>> /\ truth = Elem("none", 0) /\ ecdf_out = Pending
    /\ tasks = <<>> /\ task_i = 0 /\ results = <<>>

NextPointwise == EvaluateTask

SpecPointwise == InitPointwise /\ [][NextPointwise]_vars

----------------------------------------------------------------------------
(* Specification of file discovery: one call of find_task_file, or one     *)
(* call of evaluate_task, on an input directory.                           *)

InitFind ==
    /\ pc = "dir"
    /\ TASK_CONFIGS = TaskConfigsAtLoad
    /\ OthersIdle
    /\ input_dir \in Directories
    /\ task_name \in DOMAIN TaskConfigsAtLoad
    /\ eval_type \in {"pointwise", "distribution"}
    /\ confidence_level = 90
    /\ file = NoFile /\ ret = Pending
    /\ arg_true = <<>> /\ arg_pred = <<>> /\ metric_out = <<>>
    /\ df = <<>> /\ cleaned = Pending
    /\ samples = <<>> /\ truth = Elem("none", 0) /\ ecdf_out = Pending
    /\ tasks = <<>> /\ task_i = 0 /\ results = <<>>

\* base.py 53-75
FindTaskFile ==
    /\ pc = "dir"
    /\ ret' \in find_task_file(input_dir, TASK_CONFIGS[task_name].file_pattern)
    /\ pc' = "found"
    /\ UNCHANGED <<arg_true, arg_pred, metric_out, input_dir>>
    /\ UNCHANGED other_vars
    /\ UNCHANGED <<TASK_CONFIGS, df, task_name, cleaned, samples, truth, ecdf_out,
                   eval_type, confidence_level, tasks, file, task_i, results>>

\* evaluate_task on the directory: file is what its call of
\* find_task_file (pointwise.py 66, distribution.py 63) leads it to read.
EvaluateTaskIn ==
    /\ pc = "dir"
    /\ \E out \in find_task_file(input_dir, TASK_CONFIGS[task_name].file_pattern) :
          /\ file' = Loaded(out)
          /\ ret' = EvaluateTaskCall(eval_type, confidence_level, task_name, Loaded(out))
    /\ pc' = "evaluated"
    /\ UNCHANGED <<arg_true, arg_pred, metric_out, input_dir>>
    /\ UNCHANGED other_vars
    /\ UNCHANGED <<TASK_CONFIGS, df, task_name, cleaned, samples, truth, ecdf_out,
                   eval_type, confidence_level, tasks, task_i, results>>

NextFind == FindTaskFile \/ EvaluateTaskIn

SpecFind == InitFind /\ [][NextFind]_vars

----------------------------------------------------------------------------
(* Specification of run_eval: the loop over the requested tasks. *)

InitRun ==
    /\ arg_true = <<>> /\ arg_pred = <<>> /\ metric_out = <<>> /\ input_dir = {}
    /\ pc = "start"
    /\ TASK_CONFIGS = TaskConfigsAtLoad
    /\ OthersIdle
    /\ eval_type \in {"pointwise", "distribution"}
    /\ confidence_level = 90
    /\ tasks \in TaskLists
    /\ file = NoFile /\ task_i = 0 /\ results = <<>> /\ ret = Pending
    /\ task_name = "" /\ df = <<>> /\ cleaned = Pending
    /\ samples = <<>> /\ truth = Elem("none", 0) /\ ecdf_out = Pending

\* evaluate.py 56-73: tasks = tasks or [...]; results = {}
RunEvalStart ==
    /\ pc = "start"
    /\ tasks' = IF tasks = <<>> THEN DefaultTasks ELSE tasks
    /\ results' = <<>>
    /\ task_i' = 1
    /\ pc' = "loop"
    /\ UNCHANGED <<arg_true, arg_pred, metric_out, input_dir>>
    /\ UNCHANGED other_vars
    /\ UNCHANGED <<TASK_CONFIGS, df, task_name, cleaned, samples, truth, ecdf_out,
                   eval_type, confidence_level, file, ret>>

\* evaluate.py 74-86: one iteration, whatever the task's pattern finds.
RunEvalTask ==
    /\ pc = "loop"
    /\ task_i <= Len(tasks)
    /\ \E f \in RunFiles :
         /\ file' = f
         /\ ret' = RunEvalIteration(results, eval_type, confidence_level,
                                    tasks[task_i], f)
    /\ task_name' = tasks[task_i]
    /\ results' = IF ret'.raised = "" THEN ret'.val ELSE results
    /\ task_i' = IF ret'.raised = "" THEN task_i + 1 ELSE task_i
    /\ pc' = IF ret'.raised = "" THEN "loop" ELSE "aborted"
    /\ UNCHANGED <<arg_true, arg_pred, metric_out, input_dir>>
    /\ UNCHANGED other_vars
    /\ UNCHANGED <<TASK_CONFIGS, df, cleaned, samples, truth, ecdf_out,
                   eval_type, confidence_level, tasks>>

\* evaluate.py 88-97: the results are written and returned.
RunEvalFinish ==
    /\ pc = "loop"
    /\ task_i > Len(tasks)
    /\ ret' = Returned(results)
    /\ pc' = "done"
    /\ UNCHANGED <<arg_true, arg_pred, metric_out, input_dir>>
    /\ UNCHANGED other_vars
    /\ UNCHANGED <<TASK_CONFIGS, df, task_name, cleaned, samples, truth, ecdf_out,
                   eval_type, confidence_level, tasks, file, task_i, results>>

NextRun == RunEvalStart \/ RunEvalTask \/ RunEvalFinish

SpecRun == InitRun /\ [][NextRun]_vars

----------------------------------------------------------------------------
(* Properties *)

KnownTasks == {"spending", "labor", "credit"}

PointMetricFields == {"spearman_rho", "spearman_p", "js_divergence", "rmse", "mae",
                      "n_samples", "n_time_points", "cleaning_stats"}
DistMetricFields == {"mae", "coverage_rate", "n_samples", "cleaning_stats"}

IsMetricsRecord(r) == DOMAIN r = PointMetricFields \/ DOMAIN r = DistMetricFields
IsErrorRecord(r) == DOMAIN r = {"error"} \/ DOMAIN r = {"error", "cleaning_stats"}

\* C1: run_eval finishes with an entry for every requested task, each a full
\* metrics record or an error record; no exception of a task leaves run_eval
\* or stops the loop before the remaining tasks are evaluated.
C1_RunEvalCoversEveryTask ==
    /\ pc # "aborted"
    /\ pc # "done" => ENABLED NextRun
    /\ pc \in {"loop", "done"} =>
          \A i \in 1..(task_i - 1) :
             /\ tasks[i] \in DOMAIN results
             /\ IsMetricsRecord(results[tasks[i]]) \/ IsErrorRecord(results[tasks[i]])
    /\ pc = "done" => task_i = Len(tasks) + 1 /\ ret = Returned(results)

\* A finished run in which a task that raised is followed by a task that
\* was evaluated to a metrics record.
C1_Witness ==
    /\ pc = "done"
    /\ Len(tasks) = 2
    /\ DOMAIN results[tasks[1]] = {"error"}
    /\ results[tasks[1]].error = "UnboundLocalError"
    /\ IsMetricsRecord(results[tasks[2]])

\* The rows of the file that pass the null and validity checks of the
\* evaluator's cleaning function, whatever its outlier policy.
ValidRowsOf(type, rows) ==
    IF type = "pointwise"
    THEN DropNaPoint(DropLlmInvalid(ToNumericRows(DropHumanNull(WithCleanLlm(rows)))))
    ELSE NumericHumanRows(DropUnparsed(ParseRows(DropHumanNull(WithCleanLlm(rows)))))

\* C2: for both evaluators and every task, when no row survives cleaning,
\* or (distribution) no surviving row yields an ECDF value, evaluate_task
\* returns a record holding exactly error and cleaning_stats and does not
\* raise.
C2_DegenerateGivesErrorRecord ==
    (/\ pc = "evaluated"
     /\ task_name \in KnownTasks
     /\ file.found
     /\ \/ ValidRowsOf(eval_type, file.rows) = <<>>
        \/ /\ eval_type = "distribution"
           /\ \A i \in 1..Len(ValidRowsOf(eval_type, file.rows)) :
                 LET r == ValidRowsOf(eval_type, file.rows)[i]
                 IN calculate_ecdf(r.llm, [k |-> "num", v |-> r.human.v]).none)
    => /\ ret.raised = ""
       /\ DOMAIN ret.val = {"error", "cleaning_stats"}

\* Whether the LLM text of a row is malformed for the cleaning function:
\* not a number (point), not a parseable list (distribution).
Malformed(mode, cell) ==
    IF mode = "point" THEN ToNumericLlm(clean_llm_response(cell)).nan
    ELSE ~extract_samples(clean_llm_response(cell)).ok

\* C3: for every task, every row with a malformed LLM text (and a ground
\* truth that is present) is excluded from the cleaned rows and counted in
\* llm_invalid, and the cleaning call does not raise.
C3_MalformedExcludedAndCounted ==
    (pc \in {"point", "distribution"} /\ task_name \in KnownTasks)
    => LET bad == {i \in 1..Len(df) : /\ ~HumanNullMask(df[i].human)
                                      /\ Malformed(pc, df[i].llm)}
       IN /\ cleaned.raised = ""
          /\ \A k \in 1..Len(cleaned.val.rows) : cleaned.val.rows[k].idx \notin bad
          /\ cleaned.val.stats.llm_invalid = Cardinality(bad)

\* C4: when a cleaning function returns, the counters account for every
\* input row: original_rows = human_null + llm_invalid + rows_removed_range
\* + rows_removed_iqr + final_rows, and final_rows is the number of cleaned
\* rows; also with ground truth that is non-blank, non-numeric text.
C4_CountersAccountForEveryRow ==
    (pc \in {"point", "distribution"} /\ cleaned.raised = "")
    => LET st == cleaned.val.stats
       IN /\ st.original_rows = Len(df)
          /\ st.final_rows = Len(cleaned.val.rows)
          /\ st.original_rows = st.human_null + st.llm_invalid + st.rows_removed_range
                                + st.rows_removed_iqr + st.final_rows

RECURSIVE LenProduct(_)
LenProduct(rows) ==
    IF rows = <<>> THEN 1
    ELSE (IF Len(Head(rows).llm) = 0 THEN 1 ELSE Len(Head(rows).llm))
         * LenProduct(Tail(rows))

\* The column of list means, every mean multiplied by the product of the
\* list lengths; the mean of an empty list is NaN.
ScaledMeans(rows) ==
    [i \in 1..Len(rows) |->
        IF Len(rows[i].llm) = 0 THEN NaN
        ELSE Num(SumV(rows[i].llm) * (LenProduct(rows) \div Len(rows[i].llm)))]

\* C5: for task spending, clean_distribution_data returns normally, keeps
\* exactly the rows whose human value is <= Q3 + 15*IQR of the human column
\* and whose list mean is <= Q3 + 15*IQR of the column of list means (an
\* empty list fails), and records the removed rows in rows_removed_iqr.
C5_DistributionIqrFences ==
    (pc = "distribution" /\ task_name = "spending")
    => LET rows == ValidRowsOf("distribution", df)
           means == ScaledMeans(rows)
           fence_h == UpperFence4(Column(rows, "human"))
           fence_l == UpperFence4(means)
           keep == {i \in 1..Len(rows) : /\ InlierMask(rows[i].human, fence_h)
                                         /\ InlierMask(means[i], fence_l)}
       IN /\ cleaned.raised = ""
          /\ {cleaned.val.rows[k].idx : k \in 1..Len(cleaned.val.rows)}
                = {rows[i].idx : i \in keep}
          /\ cleaned.val.stats.rows_removed_iqr = Len(rows) - Cardinality(keep)

NumericKinds == {"num", "numstr"}

Less(s, t) == {i \in 1..Len(s) : s[i].v < t.v}
Equal(s, t) == {i \in 1..Len(s) : s[i].v = t.v}

\* C6: for a non-empty list of numeric samples and a numeric truth,
\* calculate_ecdf is 1 when the truth is above every sample, 0 when it is
\* below every sample, 1/2 when it equals every sample; in general it is
\* (count(s < t) + count(s = t) / 2) / N and lies in [0, 1].
C6_EcdfRank ==
    (/\ pc = "ecdf"
     /\ samples # <<>>
     /\ truth.k \in NumericKinds
     /\ \A i \in 1..Len(samples) : samples[i].k \in NumericKinds)
    => LET q == ecdf_out.q
           n == Len(samples)
       IN /\ ecdf_out.raised = "" /\ ~ecdf_out.none /\ ~q.nan
          /\ Cardinality(Less(samples, truth)) = n => q.n = q.d
          /\ (\A i \in 1..n : samples[i].v > truth.v) => q.n = 0
          /\ Cardinality(Equal(samples, truth)) = n => 2 * q.n = q.d
          /\ q.n * 2 * n = (2 * Cardinality(Less(samples, truth))
                            + Cardinality(Equal(samples, truth))) * q.d
          /\ 0 <= q.n /\ q.n <= q.d

\* A call with samples below, equal to and above the truth: (1 + 0.5) / 3.
C6_Witness ==
    /\ pc = "ecdf"
    /\ Len(samples) = 3
    /\ truth.k = "num"
    /\ \A i \in 1..3 : samples[i].k = "num"
    /\ Cardinality(Less(samples, truth)) = 1
    /\ Cardinality(Equal(samples, truth)) = 1
    /\ ~ecdf_out.none /\ ecdf_out.q = Q(1, 2)

\* The rows the distribution evaluator evaluates for the file, and the
\* ECDF of a row as the fraction (2 * less + equal) / (2 * N).
EvaluatedRows == clean_distribution_data(file.rows, task_name).val.rows
Truth(r) == [k |-> "num", v |-> r.human.v]
Ecdf2(r) == 2 * Cardinality(Less(r.llm, Truth(r))) + Cardinality(Equal(r.llm, Truth(r)))
HitAt(r, c) ==
    /\ (100 - c) * 2 * Len(r.llm) <= 200 * Ecdf2(r)
    /\ 200 * Ecdf2(r) <= (100 + c) * 2 * Len(r.llm)

Evaluated ==
    /\ pc = "evaluated"
    /\ eval_type = "distribution"
    /\ ret.raised = ""
    /\ DOMAIN ret.val = DistMetricFields

\* A row of the coverage scenario: a list of LongList samples, one equal to
\* the ground truth and the others strictly less.
OneTieRestBelow(r) ==
    /\ Len(r.llm) = LongList
    /\ Cardinality(Equal(r.llm, Truth(r))) = 1
    /\ Cardinality(Less(r.llm, Truth(r))) = LongList - 1

\* C7: in the distribution evaluator a row is a hit exactly when
\* (1-C)/2 <= ecdf <= (1+C)/2 and coverage_rate = hits / valid rows; when
\* every evaluated row has a list with one element equal to its ground
\* truth and the others strictly less, each ECDF is (N - 0.5)/N (0.99 for
\* 50 samples), every row is a miss at C = 0.90 and coverage_rate is 0.
C7_CoverageRate ==
    Evaluated =>
       LET rows == EvaluatedRows
           hits == {i \in 1..Len(rows) : HitAt(rows[i], confidence_level)}
       IN /\ ret.val.n_samples = Len(rows)
          /\ ~ret.val.coverage_rate.null
          /\ ret.val.coverage_rate.v = Round(Q(Cardinality(hits), Len(rows)), 10000)
          /\ (\A i \in 1..Len(rows) : OneTieRestBelow(rows[i])) =>
                /\ \A i \in 1..Len(rows) :
                      Ecdf2(rows[i]) * 2 * LongList = (2 * LongList - 1) * 2 * Len(rows[i].llm)
                /\ confidence_level = 90 => ret.val.coverage_rate.v = 0

\* An evaluation at C = 0.90 of two rows of the coverage scenario.
C7_Witness ==
    /\ Evaluated
    /\ confidence_level = 90
    /\ Len(EvaluatedRows) = 2
    /\ \A i \in 1..2 : OneTieRestBelow(EvaluatedRows[i])
    /\ ret.val.coverage_rate.v = 0

\* C8: the row with LLM text "[10, 20, 30]" and ground truth 20 has ECDF
\* (1 + 0.5)/3 = 0.5 and is a hit at every confidence level; any evaluated
\* row whose ECDF is exactly 0.5 is a hit at every confidence level.
C8_HalfIsAlwaysHit ==
    /\ (/\ pc = "evaluated"
        /\ eval_type = "distribution"
        /\ task_name \in {"labor", "credit"}
        /\ file.found
        /\ file.rows = <<Row("u1", 202401, HNum(20), ListText(10, 20, 30))>>)
       => /\ Evaluated
          /\ 2 * Ecdf2(EvaluatedRows[1]) = 2 * Len(EvaluatedRows[1].llm)
          /\ ret.val.n_samples = 1
          /\ ret.val.coverage_rate.v = 10000
    /\ (/\ Evaluated
        /\ \A i \in 1..Len(EvaluatedRows) :
              2 * Ecdf2(EvaluatedRows[i]) = 2 * Len(EvaluatedRows[i].llm))
       => ret.val.coverage_rate.v = 10000

\* The row "[10, 20, 30]" / 20 evaluated at confidence level 0.
C8_Witness ==
    /\ Evaluated
    /\ confidence_level = 0
    /\ file.rows = <<Row("u1", 202401, HNum(20), ListText(10, 20, 30))>>
    /\ ret.val.coverage_rate.v = 10000

LlmValue(r) == ToNumericLlm(clean_llm_response(r.llm))

\* C10: with the range policy in point mode (labor, credit: [0, 100]) a row
\* with numeric ground truth and numeric LLM value is retained exactly when
\* the value lies in the closed interval, boundaries included, and the
\* rows removed by the policy are counted in rows_removed_range.
C10_RangeKeepsClosedInterval ==
    (pc = "point" /\ task_name \in {"labor", "credit"})
    => LET min_val == TASK_CONFIGS[task_name].valid_range[1]
           max_val == TASK_CONFIGS[task_name].valid_range[2]
           kept == {cleaned.val.rows[k].idx : k \in 1..Len(cleaned.val.rows)}
           numeric == {i \in 1..Len(df) : df[i].human.k = "num" /\ ~LlmValue(df[i]).nan}
           checked == {i \in 1..Len(df) : ~HumanNullMask(df[i].human) /\ ~LlmValue(df[i]).nan}
           outside == {i \in checked : LlmValue(df[i]).v < min_val \/ LlmValue(df[i]).v > max_val}
       IN /\ cleaned.raised = ""
          /\ <<min_val, max_val>> = <<0, 100>>
          /\ \A i \in numeric :
                i \in kept <=> (min_val <= LlmValue(df[i]).v /\ LlmValue(df[i]).v <= max_val)
          /\ cleaned.val.stats.rows_removed_range = Cardinality(outside)

\* A cleaning that keeps a row at each boundary and removes one beyond it.
C10_Witness ==
    /\ pc = "point"
    /\ task_name = "labor"
    /\ cleaned.raised = ""
    /\ \E k \in 1..Len(cleaned.val.rows) : cleaned.val.rows[k].llm.v = 0
    /\ \E k \in 1..Len(cleaned.val.rows) : cleaned.val.rows[k].llm.v = 100
    /\ cleaned.val.stats.rows_removed_range = 1

\* The elements of a parsed list that are numbers within [lo, hi], in order.
RECURSIVE InRangeSubSeq(_, _, _)
InRangeSubSeq(l, lo, hi) ==
    IF l = <<>> THEN <<>>
    ELSE IF Head(l).k = "num" /\ lo <= Head(l).v /\ Head(l).v <= hi
         THEN <<Head(l)>> \o InRangeSubSeq(Tail(l), lo, hi)
         ELSE InRangeSubSeq(Tail(l), lo, hi)

\* The list parsed from the LLM text of an input row.
ParsedList(r) == extract_samples(clean_llm_response(r.llm))

\* C11: with the range policy in distribution mode (labor, credit) the list
\* of every retained row is the order-preserving sub-sequence of its parsed
\* list made of the numeric elements within [min, max], boundaries kept; a
\* row that passed the null and parse checks is dropped, and counted in
\* rows_removed_range, only if its filtered list is empty.
C11_RangeFiltersElements ==
    (pc = "distribution" /\ task_name \in {"labor", "credit"})
    => LET lo == TASK_CONFIGS[task_name].valid_range[1]
           hi == TASK_CONFIGS[task_name].valid_range[2]
           checked == {i \in 1..Len(df) : /\ df[i].human.k = "num"
                                          /\ ParsedList(df[i]).ok}
           empty == {i \in checked : InRangeSubSeq(ParsedList(df[i]).val, lo, hi) = <<>>}
           rows == cleaned.val.rows
       IN /\ cleaned.raised = ""
          /\ {rows[k].idx : k \in 1..Len(rows)} = checked \ empty
          /\ \A k \in 1..Len(rows) :
                rows[k].llm = InRangeSubSeq(ParsedList(df[rows[k].idx]).val, lo, hi)
          /\ cleaned.val.stats.rows_removed_range = Cardinality(empty)

\* A cleaning that keeps "[0, 100, 101]" as [0, 100], keeps
\* "['a', '20', 50, 101]" as [50] and drops the row of "[101, -1]".
C11_Witness ==
    /\ pc = "distribution"
    /\ task_name = "labor"
    /\ cleaned.raised = ""
    /\ Len(df) = 3
    /\ Len(cleaned.val.rows) = 2
    /\ cleaned.val.rows[1].llm = <<Elem("num", 0), Elem("num", 100)>>
    /\ cleaned.val.rows[2].llm = <<Elem("num", 50)>>
    /\ cleaned.val.stats.rows_removed_range = 1

\* The rows the iqr policy of clean_task_data is applied to.
PolicyRows == DropLlmInvalid(ToNumericRows(DropHumanNull(WithCleanLlm(df))))
KeptIdx == {cleaned.val.rows[k].idx : k \in 1..Len(cleaned.val.rows)}

\* C12: the iqr policy with coefficient 15 removes rows from the high tail
\* only: a row whose human and LLM values are both at or below Q3 of their
\* series is never removed, and a row whose two values are at or below
\* those of a retained row is retained (no lower bound is enforced).
C12_IqrRemovesHighTailOnly ==
    (pc = "point" /\ task_name = "spending")
    => LET rows == PolicyRows
           q3_h == Quantile4(Column(rows, "human"), 3)
           q3_l == Quantile4(Column(rows, "llm"), 3)
           numeric == {i \in 1..Len(rows) : ~rows[i].human.nan /\ ~rows[i].llm.nan}
       IN /\ cleaned.raised = ""
          /\ IqrCoefficient = 15
          /\ KeptIdx \subseteq {rows[i].idx : i \in numeric}
          /\ \A i \in numeric :
                (4 * rows[i].human.v <= q3_h.v /\ 4 * rows[i].llm.v <= q3_l.v)
                => rows[i].idx \in KeptIdx
          /\ \A i, j \in numeric :
                (/\ rows[j].idx \in KeptIdx
                 /\ rows[i].human.v <= rows[j].human.v
                 /\ rows[i].llm.v <= rows[j].llm.v)
                => rows[i].idx \in KeptIdx

\* A cleaning of five rows that removes the one with the very large human
\* value and keeps the one with the very negative values.
C12_Witness ==
    /\ pc = "point"
    /\ task_name = "spending"
    /\ cleaned.raised = ""
    /\ Len(df) = 5
    /\ cleaned.val.stats.rows_removed_iqr = 1
    /\ \E i \in 1..5 : df[i].human = HNum(1000) /\ i \notin KeptIdx
    /\ \E i \in 1..5 : df[i].human = HNum(-1000) /\ i \in KeptIdx

IsZero(out) == IF "sq" \in DOMAIN out THEN ~out.nan /\ out.sq.n = 0
               ELSE ~out.nan /\ out.n = 0

\* C13 as stated: for every numeric array a, compute_rmse(a, a) = 0 and
\* compute_mae(a, a) = 0.
C13_SelfErrorIsZero ==
    (/\ pc \in {"mae", "rmse"}
     /\ arg_true = arg_pred
     /\ \A i \in 1..Len(arg_true) : ~arg_true[i].nan)
    => IsZero(metric_out)

\* C13 amended: for every array a holding at least one number that is not
\* NaN, compute_rmse(a, a) = 0 and compute_mae(a, a) = 0; for an empty
\* array, or one holding only NaN, both are NaN.
C13_SelfErrorIsZeroIfNonEmpty ==
    (pc \in {"mae", "rmse"} /\ arg_true = arg_pred)
    => IF \E i \in 1..Len(arg_true) : ~arg_true[i].nan
       THEN IsZero(metric_out)
       ELSE metric_out.nan

\* compute_rmse of an array of three different numbers with itself.
C13_Witness ==
    /\ pc = "rmse"
    /\ arg_true = arg_pred
    /\ Len(arg_true) = 3
    /\ \A i, j \in 1..3 : ~arg_true[i].nan /\ (i # j => arg_true[i] # arg_true[j])
    /\ IsZero(metric_out)

\* The sum of the integers f[1], ..., f[n].
RECURSIVE SumTo(_, _)
SumTo(f, n) == IF n = 0 THEN 0 ELSE f[n] + SumTo(f, n - 1)

\* The pairs of the two argument arrays without a NaN, and the absolute
\* difference of each (the elements of the arrays are whole numbers).
Pairs == {i \in 1..Len(arg_true) : ~arg_true[i].nan /\ ~arg_pred[i].nan}
AbsDiff(i) == Abs(arg_true[i].n - arg_pred[i].n)

NonZeroTruth == {i \in 1..Len(arg_true) : arg_true[i].nan \/ arg_true[i].n # 0}
RECURSIVE TruthProduct(_)
TruthProduct(n) ==
    IF n = 0 THEN 1
    ELSE (IF n \in NonZeroTruth /\ ~arg_true[n].nan THEN Abs(arg_true[n].n) ELSE 1)
         * TruthProduct(n - 1)

\* C15: compute_mape excludes exactly the pairs whose ground truth is zero
\* (a pair holding a NaN with non-zero ground truth is kept, and makes the
\* result NaN), returns mean(|a - b| / |a|) * 100 over the remaining pairs,
\* and returns NaN when no pair remains.
C15_MapeExcludesZeroTruthOnly ==
    pc = "mape" =>
       LET n == Len(arg_true)
           L == TruthProduct(n)
           scaled == [i \in 1..n |->
                        IF i \in NonZeroTruth /\ ~arg_true[i].nan /\ ~arg_pred[i].nan
                        THEN AbsDiff(i) * (L \div Abs(arg_true[i].n)) ELSE 0]
       IN /\ NonZeroTruth = {} => metric_out.nan
          /\ (\E i \in NonZeroTruth : arg_true[i].nan \/ arg_pred[i].nan) => metric_out.nan
          /\ (/\ NonZeroTruth # {}
              /\ \A i \in NonZeroTruth : ~arg_true[i].nan /\ ~arg_pred[i].nan)
             => /\ ~metric_out.nan
                /\ metric_out.n * Cardinality(NonZeroTruth) * L
                      = metric_out.d * 100 * SumTo(scaled, n)

\* compute_mape of three pairs: one with ground truth 0, and two with
\* ground truths -2 and 3 whose predictions differ from them.
C15_Witness ==
    /\ pc = "mape"
    /\ Len(arg_true) = 3
    /\ Cardinality(NonZeroTruth) = 2
    /\ \E i \in NonZeroTruth : arg_true[i] = Q(-2, 1) /\ arg_pred[i] = Q(3, 1)
    /\ \E i \in NonZeroTruth : arg_true[i] = Q(3, 1) /\ arg_pred[i] = Q(0, 1)
    /\ metric_out = Q(175, 1)

\* C18: compute_js_divergence is symmetric in its two sample sets.
C18_JsSymmetric ==
    pc = "js" => metric_out = compute_js_divergence(arg_pred, arg_true)

\* A divergence of two sample sets with different histograms.
C18_Witness ==
    /\ pc = "js"
    /\ ~metric_out.nan
    /\ Cardinality(metric_out.js_div) = 2
    /\ Len(DropNaNs(arg_true)) # Len(DropNaNs(arg_pred))

MetricFields == {"spearman_rho", "spearman_p", "js_divergence", "rmse", "mae",
                 "coverage_rate"}

\* C17: in every metrics record returned by evaluate_task of either
\* evaluator, each metric field is a number or an explicit null: NaN never
\* appears as a field value.
C17_NoNaNInRecord ==
    (pc = "evaluated" /\ ret.raised = "" /\ IsMetricsRecord(ret.val))
    => \A f \in MetricFields \cap DOMAIN ret.val :
          /\ ~ret.val[f].nan
          /\ ret.val[f].null \in BOOLEAN

\* A pointwise record whose correlation is NaN, reported as null beside a
\* numeric rmse.
C17_Witness ==
    /\ pc = "evaluated"
    /\ eval_type = "pointwise"
    /\ ret.raised = ""
    /\ IsMetricsRecord(ret.val)
    /\ ret.val.spearman_rho.null /\ ~ret.val.spearman_rho.nan
    /\ ~ret.val.rmse.null

\* The rows the pointwise evaluator computes its metrics from.
PointRows == clean_task_data(file.rows, task_name).val.rows

TaskMatches ==
    {f \in input_dir : f.prefix = task_name /\ f.suffix = "withHumanData.csv"}

\* C19: find_task_file returns, among the files of the directory that
\* match the pattern, one with the greatest modification time, and raises
\* FileNotFoundError when no file matches; evaluate_task then ends with
\* that error and no record.
C19_LatestMatchOrError ==
    /\ pc = "found" =>
          IF TaskMatches = {} THEN ret = Raised("FileNotFoundError")
          ELSE /\ ret.raised = ""
               /\ ret.val \in TaskMatches
               /\ \A g \in TaskMatches : g.mtime <= ret.val.mtime
    /\ pc = "evaluated" =>
          /\ TaskMatches = {} => ret = Raised("FileNotFoundError")
          /\ TaskMatches # {} =>
                /\ ret.raised # "FileNotFoundError"
                /\ \E f \in TaskMatches :
                      /\ file = f.csv
                      /\ \A g \in TaskMatches : g.mtime <= f.mtime

\* A call that finds two matching files and returns the newer one.
C19_Witness ==
    /\ pc = "found"
    /\ Cardinality(TaskMatches) = 2
    /\ \E f, g \in TaskMatches : f.mtime < g.mtime /\ ret = Returned(g)

\* C20: get_task_config raises ValueError for every task name that is not
\* a key of TASK_CONFIGS (and for no other), and clean_task_data and
\* clean_distribution_data called with such a name raise it instead of
\* returning cleaned rows.
C20_UnknownTaskRaises ==
    /\ \A name \in TaskNames :
          IF name \in {"spending", "labor", "credit"}
          THEN get_task_config(name).raised = ""
          ELSE get_task_config(name) = Raised("ValueError")
    /\ (pc \in {"point", "distribution"} /\ task_name \notin {"spending", "labor", "credit"})
       => cleaned = Raised("ValueError")
    /\ (pc \in {"point", "distribution"} /\ task_name \in {"spending", "labor", "credit"})
       => cleaned.raised # "ValueError"

\* A cleaning of three rows for a task that TASK_CONFIGS does not know.
C20_Witness ==
    /\ pc = "distribution"
    /\ task_name = "other"
    /\ Len(df) = 3
    /\ cleaned = Raised("ValueError")

\* Whether input row i passes the null, validity and outlier checks of the
\* cleaning function called (pc) for a task that TASK_CONFIGS knows.
PassesChecks(i) ==
    LET method == Get(TASK_CONFIGS[task_name], "cleaning_method", "none")
        range == Get(TASK_CONFIGS[task_name], "valid_range", <<0, 100>>)
    IN /\ df[i].human.k = "num"
       /\ IF pc = "point"
          THEN /\ ~LlmValue(df[i]).nan
               /\ method = "range" =>
                     (range[1] <= LlmValue(df[i]).v /\ LlmValue(df[i]).v <= range[2])
               /\ method = "iqr" =>
                     /\ 4 * df[i].human.v <= UpperFence4(Column(PolicyRows, "human")).v
                     /\ 4 * LlmValue(df[i]).v <= UpperFence4(Column(PolicyRows, "llm")).v
          ELSE /\ ParsedList(df[i]).ok
               /\ method = "range" =>
                     InRangeSubSeq(ParsedList(df[i]).val, range[1], range[2]) # <<>>

\* C21: cleaning performs no de-duplication.  When clean_task_data or
\* clean_distribution_data returns, the cleaned rows are an order-preserving
\* sub-sequence of the input rows (strictly increasing input positions, the
\* row's own userid and date), and two input rows of the same (userid, date)
\* that each pass the null, validity and outlier checks are both retained.
C21_NoDeduplication ==
    (pc \in {"point", "distribution"} /\ cleaned.raised = "")
    => LET rows == cleaned.val.rows
       IN /\ \A k \in 1..Len(rows) :
                /\ rows[k].idx \in 1..Len(df)
                /\ rows[k].userid = df[rows[k].idx].userid
                /\ rows[k].date = df[rows[k].idx].date
          /\ \A k \in 1..(Len(rows) - 1) : rows[k].idx < rows[k + 1].idx
          /\ \A i, j \in 1..Len(df) :
                (/\ i # j
                 /\ <<df[i].userid, df[i].date>> = <<df[j].userid, df[j].date>>
                 /\ PassesChecks(i) /\ PassesChecks(j))
                => \E k, l \in 1..Len(rows) : k # l /\ rows[k].idx = i /\ rows[l].idx = j

\* A distribution cleaning of three rows of one (userid, date), the first and
\* the last the same row, that returns both copies and drops the middle row.
C21_Witness ==
    /\ pc = "distribution"
    /\ task_name = "labor"
    /\ Len(df) = 3
    /\ df[1] = df[3] /\ df[2].userid = df[1].userid /\ df[2].date = df[1].date
    /\ cleaned.raised = ""
    /\ Len(cleaned.val.rows) = 2
    /\ cleaned.val.rows[1].idx = 1 /\ cleaned.val.rows[2].idx = 3

\* The mean of a column over the rows of date d, as sum / count.
RECURSIVE SumOfDate(_, _, _)
SumOfDate(rows, field, d) ==
    IF rows = <<>> THEN 0
    ELSE (IF Head(rows).date = d THEN Head(rows)[field].v ELSE 0)
         + SumOfDate(Tail(rows), field, d)

MeanOfDate(rows, field, d) ==
    Q(SumOfDate(rows, field, d), Cardinality({i \in 1..Len(rows) : rows[i].date = d}))

\* The dates of the rows that are present, in ascending order.
SortedDates(rows) ==
    SortSeq(LET ds == {rows[i].date : i \in 1..Len(rows)} \ {NoDate}
            IN CHOOSE f \in [1..Cardinality(ds) -> ds] : {f[k] : k \in DOMAIN f} = ds,
            LAMBDA a, b : a < b)

\* C22: PointwiseEvaluator computes rmse, mae and js_divergence over the
\* ungrouped cleaned rows; with a date column it computes Spearman over the
\* two aligned series of per-date means, one point per distinct date of the
\* cleaned rows, and reports the number of those dates as n_time_points;
\* without a date column it computes Spearman over the ungrouped arrays and
\* reports n_time_points = 0.
C22_SpearmanOverDailyMeans ==
    (pc = "evaluated" /\ eval_type = "pointwise" /\ ret.raised = ""
     /\ IsMetricsRecord(ret.val))
    => LET rows == PointRows
           human_vals == [i \in 1..Len(rows) |-> Q(rows[i].human.v, 1)]
           llm_vals == [i \in 1..Len(rows) |-> Q(rows[i].llm.v, 1)]
           ds == SortedDates(rows)
           mean_h == [k \in 1..Len(ds) |-> MeanOfDate(rows, "human", ds[k])]
           mean_l == [k \in 1..Len(ds) |-> MeanOfDate(rows, "llm", ds[k])]
           series_h == IF file.has_date THEN mean_h ELSE human_vals
           series_l == IF file.has_date THEN mean_l ELSE llm_vals
       IN /\ ret.val.rmse.sq = compute_rmse(human_vals, llm_vals).sq
          /\ ret.val.mae = RoundOrNull(compute_mae(human_vals, llm_vals), 100)
          /\ ret.val.js_divergence.of = compute_js_divergence(human_vals, llm_vals)
          /\ ret.val.n_samples = Len(rows)
          /\ ret.val.n_time_points = IF file.has_date THEN Len(ds) ELSE 0
          /\ ret.val.spearman_rho.of = compute_temporal_spearman(series_h, series_l).rho
          /\ ret.val.spearman_p.of = compute_temporal_spearman(series_h, series_l).p
          /\ ret.val.spearman_rho.of.v = spearmanr(series_h, series_l)

\* An evaluation of three cleaned rows of two dates, the two rows of the
\* first date with different values, that reports a correlation.
C22_Witness ==
    /\ pc = "evaluated"
    /\ eval_type = "pointwise"
    /\ ret.raised = ""
    /\ IsMetricsRecord(ret.val)
    /\ file.has_date
    /\ Len(PointRows) = 3
    /\ PointRows[1].date = PointRows[2].date
    /\ PointRows[1].human # PointRows[2].human
    /\ PointRows[3].date \notin {PointRows[1].date, NoDate}
    /\ ret.val.n_time_points = 2
    /\ ~ret.val.spearman_rho.null

\* Whether a text is a <think>...</think> block without a tag inside,
\* followed by whitespace and one numeric literal.
IsThinkThenNumber(cell) ==
    /\ ~cell.na
    /\ Len(cell.text) >= 4
    /\ cell.text[1] = ThinkOpen
    /\ \E c \in 2..(Len(cell.text) - 2) :
          /\ cell.text[c] = ThinkClose
          /\ \A i \in 2..(c - 1) : cell.text[i] \notin {ThinkOpen, ThinkClose}
          /\ \A i \in (c + 1)..(Len(cell.text) - 1) : cell.text[i] = Ws
    /\ cell.text[Len(cell.text)].t = "num"

\* C23: in point cleaning an LLM text made of a <think>...</think> block
\* followed by whitespace and a numeric literal is parsed to that number;
\* the file whose one row has llm_response "<think>reasoning</think>\n42"
\* and ground truth 40, evaluated for task labor, keeps the row with LLM
\* value 42 and reports rmse 2 (the mean squared error is 4) over 1 sample.
C23_ThinkBlockThenNumber ==
    /\ \A i \in 1..Len(file.rows) :
          IsThinkThenNumber(file.rows[i].llm)
          => LlmValue(file.rows[i]) = Num(file.rows[i].llm.text[Len(file.rows[i].llm.text)].v)
    /\ (/\ pc = "evaluated"
        /\ eval_type = "pointwise"
        /\ task_name = "labor"
        /\ Len(file.rows) = 1
        /\ file.rows[1].llm = ThinkThen(42)
        /\ file.rows[1].human = HNum(40))
       => /\ ret.raised = ""
          /\ IsMetricsRecord(ret.val)
          /\ ret.val.n_samples = 1
          /\ ret.val.cleaning_stats.final_rows = 1
          /\ ret.val.cleaning_stats.llm_invalid = 0
          /\ ret.val.rmse = [null |-> FALSE, nan |-> FALSE, sq |-> Q(4, 1)]
          /\ ret.val.mae = [null |-> FALSE, nan |-> FALSE, v |-> 200, scale |-> 100]
          /\ Len(PointRows) = 1 /\ PointRows[1].llm = Num(42)

\* The evaluation of that one-row file for task labor.
C23_Witness ==
    /\ pc = "evaluated"
    /\ eval_type = "pointwise"
    /\ task_name = "labor"
    /\ file.rows = <<Row("u1", 202401, HNum(40), ThinkThen(42))>>
    /\ ret.raised = ""
    /\ ret.val.rmse.sq = Q(4, 1)

\* The least element of a non-empty set of positions.
Least(S) == CHOOSE i \in S : \A j \in S : i <= j

\* C24: extract_samples never raises.  It returns the list that the whole
\* trimmed text is the literal of; failing that, the list that the first
\* bracketed span of the text (from the first [ to the first ] after it)
\* is the literal of; and the null marker in every other case, a missing
\* text included.
C24_ExtractSamplesFallback ==
    pc = "extracted"
    => /\ ret.raised = ""
       /\ IF arg_text.na THEN ret.val = NoList
          ELSE LET t == Strip(arg_text.text)
                   opens == {i \in 1..Len(t) : t[i] = LB}
                   closes == {j \in 1..Len(t) : t[j] = RB /\ opens # {} /\ j > Least(opens)}
                   whole == LiteralEval(t)
               IN IF whole.raised = "" /\ whole.val.k = "list"
                  THEN ret.val = List(whole.val.v)
                  ELSE IF opens = {} \/ closes = {} THEN ret.val = NoList
                  ELSE LET span == LiteralEval(SubSeq(t, Least(opens), Least(closes)))
                       IN IF span.raised = "" /\ span.val.k = "list"
                          THEN ret.val = List(span.val.v)
                          ELSE ret.val = NoList

\* extract_samples of "x [1]": the text is no literal, its span [1] is.
C24_Witness ==
    /\ pc = "extracted"
    /\ arg_text = Text(<<Word, Ws, LB, NumTok(1), RB>>)
    /\ ret = Returned(List(<<Elem("num", 1)>>))

\* 4 * (Q3 + 15 * (Q3 - Q1)) of the numbers of a column, as the claim states
\* the fence.
Fence4(rows, field) ==
    Quantile4(Column(rows, field), 3).v
    + 15 * (Quantile4(Column(rows, field), 3).v - Quantile4(Column(rows, field), 1).v)

\* C25: in point mode with the iqr policy (task spending) the quartiles and
\* the IQR are computed for the human column and for the LLM column, each on
\* its own, over the rows that passed the null and validity checks; a row
\* is kept if and only if its human value is <= Q3_h + 15 * IQR_h and its LLM
\* value is <= Q3_l + 15 * IQR_l; the rows removed are counted in
\* rows_removed_iqr, and no range is applied (rows_removed_range = 0, values
\* outside [0, 100] are kept).
C25_IqrFencesPerColumn ==
    (pc = "point" /\ task_name = "spending")
    => LET rows == PolicyRows
           within == {i \in 1..Len(rows) :
                        /\ ~rows[i].human.nan
                        /\ 4 * rows[i].human.v <= Fence4(rows, "human")
                        /\ 4 * rows[i].llm.v <= Fence4(rows, "llm")}
       IN /\ cleaned.raised = ""
          /\ TASK_CONFIGS[task_name].cleaning_method = "iqr"
          /\ KeptIdx = {rows[i].idx : i \in within}
          /\ cleaned.val.stats.rows_removed_iqr = Len(rows) - Cardinality(within)
          /\ cleaned.val.stats.rows_removed_range = 0
          /\ cleaned.val.stats.final_rows = Cardinality(within)

\* A cleaning of five rows that removes, alone, the row whose LLM value is
\* very large beside an ordinary human value, and keeps a row whose LLM
\* value is below 0.
C25_Witness ==
    /\ pc = "point"
    /\ task_name = "spending"
    /\ cleaned.raised = ""
    /\ Len(df) = 5
    /\ cleaned.val.stats.rows_removed_iqr = 1
    /\ \E i \in 1..5 : df[i].human = HNum(0) /\ df[i].llm = Number(1000) /\ i \notin KeptIdx
    /\ \E j \in 1..5 : df[j].llm = Number(-1000) /\ j \in KeptIdx

----------------------------------------------------------------------------
(* Specification of the task table: get_task_config with and without       *)
(* overrides, cleaning calls and evaluations, in any order.                 *)

Call(op, name, overrides, out) ==
    [op |-> op, task |-> name, overrides |-> overrides, out |-> out]

InitConfig ==
    /\ pc = "config"
    /\ TASK_CONFIGS = TaskConfigsAtLoad
    /\ EvalIdle /\ ExtractIdle /\ LlmIdle /\ RunIdle
    /\ ret = Pending
    /\ call_log = <<>>

GetTaskConfig ==
    /\ pc = "config"
    /\ Len(call_log) < MaxCalls
    /\ \E name \in ConfigTasks, i \in 1..Len(OverridesMenu) :
          /\ call_log' = Append(call_log,
                Call("get_task_config", name, OverridesMenu[i],
                     get_task_config_overrides(name, OverridesMenu[i])))
          /\ TASK_CONFIGS' = ConfigsAfterCall(name, OverridesMenu[i])
    /\ UNCHANGED <<pc, ret>>
    /\ UNCHANGED <<eval_vars, extract_vars, llm_vars, run_vars>>

CleaningCall ==
    /\ pc = "config"
    /\ Len(call_log) < MaxCalls
    /\ \E name \in ConfigTasks :
          \/ call_log' = Append(call_log,
                Call("clean_task_data", name, NoOverrides,
                     clean_task_data(ConfigFrame, name)))
          \/ call_log' = Append(call_log,
                Call("clean_distribution_data", name, NoOverrides,
                     clean_distribution_data(ConfigFrame, name)))
    /\ UNCHANGED <<pc, ret, TASK_CONFIGS>>
    /\ UNCHANGED <<eval_vars, extract_vars, llm_vars, run_vars>>

EvaluationCall ==
    /\ pc = "config"
    /\ Len(call_log) < MaxCalls
    /\ \E name \in ConfigTasks, type \in {"pointwise", "distribution"} :
          call_log' = Append(call_log,
                Call(type, name, NoOverrides,
                     EvaluateTaskCall(type, 90, name, ConfigFile)))
    /\ UNCHANGED <<pc, ret, TASK_CONFIGS>>
    /\ UNCHANGED <<eval_vars, extract_vars, llm_vars, run_vars>>

NextConfig == GetTaskConfig \/ CleaningCall \/ EvaluationCall

SpecConfig == InitConfig /\ [][NextConfig]_vars

\* The outcome of get_task_config(task) on the table as loaded.
Defaults(name) ==
    IF name \in DOMAIN TaskConfigsAtLoad THEN Returned(TaskConfigsAtLoad[name])
    ELSE Raised("ValueError")

SameOutcome(a, b) ==
    /\ a.raised = b.raised
    /\ a.raised = "" => a.val = b.val

\* C26: after any sequence of get_task_config calls, with or without
\* overrides, of cleaning calls and of evaluations, TASK_CONFIGS is the table
\* as loaded, each task has one cleaning method among range, iqr and none,
\* and every call of get_task_config without overrides, those made and the
\* next one, returns the defaults of the task.
C26_ConfigFixedAtLoad ==
    /\ TASK_CONFIGS = TaskConfigsAtLoad
    /\ \A t \in DOMAIN TASK_CONFIGS :
          TASK_CONFIGS[t].cleaning_method \in {"range", "iqr", "none"}
    /\ \A t \in TaskNames :
          SameOutcome(get_task_config_overrides(t, NoOverrides), Defaults(t))
    /\ \A i \in 1..Len(call_log) :
          (call_log[i].op = "get_task_config" /\ DOMAIN call_log[i].overrides = {})
             => SameOutcome(call_log[i].out, Defaults(call_log[i].task))

\* A call with overrides that returned another cleaning method, then a
\* cleaning call or an evaluation, then a call without overrides of the same task.
C26_Witness ==
    /\ Len(call_log) = 3
    /\ call_log[1].op = "get_task_config" /\ call_log[1].task = "labor"
    /\ call_log[1].out.raised = "" /\ call_log[1].out.val.cleaning_method = "none"
    /\ call_log[2].op # "get_task_config" /\ call_log[2].task = "labor"
    /\ call_log[2].out.raised = ""
    /\ call_log[3].op = "get_task_config" /\ call_log[3].task = "labor"
    /\ DOMAIN call_log[3].overrides = {}
    /\ call_log[3].out.val.cleaning_method = "range"

----------------------------------------------------------------------------
(* get_llm_response, llm_client.py 29-141, from the loop of line 83 on     *)

\* Mutant of LoopContinues: one more turn of the loop.
LoopContinuesInclusive(count, limit) == count <= limit

\* line 83: while retry_count < max_retries
LoopContinues(count, limit) == count < limit

\* lines 117-126: the result dict built from a response with a first choice.
ResultOf(response) ==
    [content |-> response.content, latency |-> response.duration,
     prompt_tokens |-> IF response.usage.present THEN response.usage.prompt_tokens ELSE 0,
     completion_tokens |-> IF response.usage.present THEN response.usage.completion_tokens ELSE 0,
     total_tokens |-> IF response.usage.present THEN response.usage.total_tokens ELSE 0]

\* lines 135-141: f"ERROR: Failed after {max_retries} attempts."
FailedRecord(limit) ==
    [content |-> <<"ERROR: Failed after ", limit, " attempts.">>, latency |-> 0,
     prompt_tokens |-> 0, completion_tokens |-> 0, total_tokens |-> 0]

\* Lines 117-126 raise inside the try: response.choices[0] of a response
\* without choices is an IndexError.
BodyRaises(outcome) == outcome.kind = "raised" \/ outcome.choices = 0

InitLlm ==
    /\ pc = "loop"
    /\ TASK_CONFIGS = TaskConfigsAtLoad
    /\ EvalIdle /\ ExtractIdle /\ ConfigIdle /\ RunIdle
    /\ max_retries \in 0..MaxRetries
    /\ retry_count = 0
    /\ requests = <<>>
    /\ ret = Pending

\* lines 83-113: the loop is entered and the request sent.
SendRequest ==
    /\ pc = "loop"
    /\ LoopContinues(retry_count, max_retries)
    /\ requests' = Append(requests, InFlight)
    /\ pc' = "create"
    /\ UNCHANGED <<TASK_CONFIGS, ret, max_retries, retry_count>>
    /\ UNCHANGED <<eval_vars, extract_vars, config_vars, run_vars>>

\* lines 113-128: the awaited call returns a response the body accepts.
ResponseReturned ==
    /\ pc = "create"
    /\ \E outcome \in CreateOutcomes :
          /\ ~BodyRaises(outcome)
          /\ requests' = [requests EXCEPT ![Len(requests)] = outcome]
          /\ ret' = Returned(ResultOf(outcome))
    /\ pc' = "returned"
    /\ UNCHANGED <<TASK_CONFIGS, max_retries, retry_count>>
    /\ UNCHANGED <<eval_vars, extract_vars, config_vars, run_vars>>

\* lines 130-131: an exception of the call or of the body is caught.
RequestFailed ==
    /\ pc = "create"
    /\ \E outcome \in CreateOutcomes :
          /\ BodyRaises(outcome)
          /\ requests' = [requests EXCEPT ![Len(requests)] = outcome]
    /\ retry_count' = retry_count + 1
    /\ pc' = "sleep"
    /\ UNCHANGED <<TASK_CONFIGS, ret, max_retries>>
    /\ UNCHANGED <<eval_vars, extract_vars, config_vars, run_vars>>

\* line 133: asyncio.sleep(2 * retry_count) ends.
SleepEnds ==
    /\ pc = "sleep"
    /\ pc' = "loop"
    /\ UNCHANGED <<TASK_CONFIGS, ret, max_retries, retry_count, requests>>
    /\ UNCHANGED <<eval_vars, extract_vars, config_vars, run_vars>>

\* lines 135-141: the loop is left without a response.
ReturnError ==
    /\ pc = "loop"
    /\ ~LoopContinues(retry_count, max_retries)
    /\ ret' = Returned(FailedRecord(max_retries))
    /\ pc' = "returned"
    /\ UNCHANGED <<TASK_CONFIGS, max_retries, retry_count, requests>>
    /\ UNCHANGED <<eval_vars, extract_vars, config_vars, run_vars>>

NextLlm == SendRequest \/ ResponseReturned \/ RequestFailed \/ SleepEnds \/ ReturnError

SpecLlm == InitLlm /\ [][NextLlm]_vars

\* Every awaited call ends (the request returns or raises, the sleep is
\* over) and the coroutine is resumed.
SpecLlmLive == InitLlm /\ [][NextLlm]_vars /\ WF_vars(NextLlm)

Failures(reqs) == {i \in 1..Len(reqs) : BodyRaises(reqs[i])}
Successes(reqs) == {i \in 1..Len(reqs) : reqs[i].kind = "response" /\ reqs[i].choices > 0}

\* C27: get_llm_response sends at most max_retries requests; once it has
\* returned, no request is sent; a successful response is the last request,
\* every request before it failed, and it is what the call returns; when
\* max_retries requests failed the call returns the record "ERROR: Failed
\* after <max_retries> attempts." with latency and token counts 0; the call
\* never raises and always returns.
C27_RetriesBoundedAndReturns ==
    /\ [](Len(requests) <= max_retries)
    /\ [][pc = "returned" => requests' = requests]_vars
    /\ [](pc = "returned" =>
            /\ ret.raised = ""
            /\ Successes(requests) # {} =>
                  /\ Successes(requests) = {Len(requests)}
                  /\ Failures(requests) = 1..(Len(requests) - 1)
                  /\ ret.val = ResultOf(requests[Len(requests)])
            /\ Successes(requests) = {} =>
                  /\ Failures(requests) = 1..max_retries
                  /\ Len(requests) = max_retries
                  /\ ret.val.content = <<"ERROR: Failed after ", max_retries, " attempts.">>
                  /\ ret.val.latency = 0
                  /\ ret.val.prompt_tokens = 0
                  /\ ret.val.completion_tokens = 0
                  /\ ret.val.total_tokens = 0)
    /\ <>(pc = "returned")

\* Two requests failed, one by an exception and one by a response without
\* choices, and the call returned the third response; and a call of which
\* all the requests failed.
C27_Witness ==
    /\ pc = "returned"
    /\ max_retries = 3
    /\ Len(requests) = 3
    /\ requests[1].kind = "raised"
    /\ requests[2] = EmptyResponse
    /\ ret.val.content = <<"42">>

C27_WitnessAllFailed ==
    /\ pc = "returned"
    /\ max_retries = 3
    /\ Failures(requests) = 1..3
    /\ ret.val.content = <<"ERROR: Failed after ", 3, " attempts.">>

----------------------------------------------------------------------------
(* run_experiment, main.py 234-310, with the row tasks of lines 35-64      *)

DigitChars == <<"0", "1", "2", "3", "4", "5", "6", "7", "8", "9">>
Digits == {DigitChars[k] : k \in 1..10}
DigitVal(c) == (CHOOSE k \in 1..10 : DigitChars[k] = c) - 1

\* str(n) of an integer n >= 0, as to_csv writes it.
RECURSIVE StrOfInt(_)
StrOfInt(n) ==
    IF n < 10 THEN <<DigitChars[n + 1]>>
    ELSE StrOfInt(n \div 10) \o <<DigitChars[(n % 10) + 1]>>

\* The integer a text of digits stands for, as read_csv parses it.
RECURSIVE IntOfDigits(_)
IntOfDigits(t) ==
    IF t = <<>> THEN 0
    ELSE 10 * IntOfDigits(SubSeq(t, 1, Len(t) - 1)) + DigitVal(t[Len(t)])

IsDigits(t) == t # <<>> /\ \A k \in 1..Len(t) : t[k] \in Digits

\* to_csv: the text of a cell.
CellText(v) == IF v.type = "int" THEN StrOfInt(v.n) ELSE v.s

\* read_csv: a column whose cells are all integers is an integer column,
\* any other column keeps the text of its cells.
InferColumn(cells) ==
    IF \A k \in 1..Len(cells) : IsDigits(cells[k])
    THEN [k \in 1..Len(cells) |-> IntVal(IntOfDigits(cells[k]))]
    ELSE [k \in 1..Len(cells) |-> StrVal(cells[k])]

\* A data line of the output file: the texts of the key, and the run and
\* the row of df whose result the rest of the line holds.
FileRow(key, run, row) ==
    [userid |-> CellText(key[1]), date |-> CellText(key[2]), run |-> run, row |-> row]

\* line 241: set(zip(existing['userid'], existing['date']))
KeysOfFile(rows) ==
    LET userids == InferColumn([k \in 1..Len(rows) |-> rows[k].userid])
        dates == InferColumn([k \in 1..Len(rows) |-> rows[k].date])
    IN {<<userids[k], dates[k]>> : k \in 1..Len(rows)}

\* line 251: sort_values(by='date') of the rows, given by their indices.
RECURSIVE SortByDate(_, _)
SortByDate(rows, idx) ==
    IF idx = <<>> THEN <<>>
    ELSE LET first == CHOOSE k \in 1..Len(idx) :
                         \A l \in 1..Len(idx) : rows[idx[k]][2].n <= rows[idx[l]][2].n
             d == rows[idx[first]][2].n
         IN SelectSeq(idx, LAMBDA j : rows[j][2].n = d)
              \o SortByDate(rows, SelectSeq(idx, LAMBDA j : rows[j][2].n # d))

\* lines 254-259: the rows whose key is not in processed_set.
Remaining(rows, idx, processed) ==
    LET keys_to_process == {rows[idx[k]] : k \in 1..Len(idx)}
        keys_remaining == keys_to_process \ processed
    IN IF Cardinality(keys_remaining) < Len(idx)
       THEN SelectSeq(idx, LAMBDA j : rows[j] \in keys_remaining)
       ELSE idx

\* lines 262-264: head(limit) when the limit is set.
HeadRows(idx, limit) ==
    IF limit # 0 /\ limit < Len(idx) THEN SubSeq(idx, 1, limit) ELSE idx

\* lines 299-301 and 306-308: to_csv(output_path, mode='a') of the results.
WriteCsv(csv, results_to_write, rows, run) ==
    [exists |-> TRUE,
     readable |-> IF csv.exists THEN csv.readable ELSE TRUE,
     rows |-> csv.rows \o [k \in 1..Len(results_to_write) |->
                 FileRow(rows[results_to_write[k]], run, results_to_write[k])]]

\* Mutant of AfterBatch: the results written stay in the list.
AfterBatchKept(batch) == batch

\* line 302: pending_results = []
AfterBatch(batch) == <<>>

\* Mutant of Free: a permit taken whether or not there is one.
FreeAlways(value, waiters) == TRUE

\* Semaphore.acquire returns at once when a permit is free and no task waits.
Free(value, waiters) == value > 0 /\ waiters = <<>>

\* Semaphore.release: the permit goes to the oldest waiting task, if any.
ValueAfterRelease(value, waiters) == IF waiters = <<>> THEN value + 1 ELSE value
StatesAfterRelease(states, waiters) ==
    IF waiters = <<>> THEN states ELSE [states EXCEPT ![Head(waiters)] = "woken"]

\* lines 234-284: the file read, the rows filtered, the tasks created.
StartRun ==
    /\ pc \in {"idle", "ended"}
    /\ run_no < runs_allowed
    /\ run_no' = run_no + 1
    /\ existing' = (IF output_csv.exists /\ output_csv.readable
                    THEN [read |-> TRUE, rows |-> output_csv.rows] ELSE NotRead)
    /\ processed_set' = KeysOfFile(existing'.rows)
    /\ df_to_process' =
          HeadRows(Remaining(input_rows,
                             SortByDate(input_rows, [k \in 1..Len(input_rows) |-> k]),
                             processed_set'),
                   debug_limit)
    /\ task_state' = [t \in 1..Len(df_to_process') |-> "created"]
    /\ sem_value' = max_concurrent
    /\ sem_waiters' = <<>> /\ completed' = <<>> /\ consumed' = 0
    /\ pending_results' = <<>>
    /\ sent' = [k \in 1..Len(input_rows) |-> 0]
    /\ pc' = (IF Len(df_to_process') = 0 THEN "ended" ELSE "running")
    /\ UNCHANGED <<input_rows, output_csv, max_concurrent, save_every, debug_limit,
                   runs_allowed>>
    /\ UNCHANGED <<TASK_CONFIGS, ret>>
    /\ UNCHANGED <<eval_vars, extract_vars, config_vars, llm_vars>>

\* lines 40-48: a row task takes a permit, builds its prompts and calls
\* get_llm_response.
AcquireAndSend ==
    /\ pc = "running"
    /\ \E t \in DOMAIN task_state :
          /\ \/ task_state[t] = "created" /\ Free(sem_value, sem_waiters)
                   /\ sem_value' = sem_value - 1
             \/ task_state[t] = "woken" /\ sem_value' = sem_value
          /\ task_state' = [task_state EXCEPT ![t] = "in_llm"]
          /\ sent' = [sent EXCEPT ![df_to_process[t]] = @ + 1]
    /\ UNCHANGED <<input_rows, output_csv, existing, processed_set, df_to_process,
                   sem_waiters, completed, consumed, pending_results,
                   max_concurrent, save_every, debug_limit, run_no, runs_allowed>>
    /\ UNCHANGED <<pc, TASK_CONFIGS, ret>>
    /\ UNCHANGED <<eval_vars, extract_vars, config_vars, llm_vars>>

\* lines 40-45: a row task takes a permit and build_row_prompts raises; the
\* permit is released as the exception leaves the async with.
AcquireAndRaise ==
    /\ pc = "running"
    /\ \E t \in DOMAIN task_state :
          /\ \/ task_state[t] = "created" /\ Free(sem_value, sem_waiters)
                   /\ sem_value' = sem_value
                   /\ task_state' = [task_state EXCEPT ![t] = "raised"]
             \/ task_state[t] = "woken"
                   /\ sem_value' = ValueAfterRelease(sem_value, sem_waiters)
                   /\ task_state' = [StatesAfterRelease(task_state, sem_waiters)
                                        EXCEPT ![t] = "raised"]
          /\ sem_waiters' = (IF task_state[t] = "woken" /\ sem_waiters # <<>>
                             THEN Tail(sem_waiters) ELSE sem_waiters)
          /\ completed' = Append(completed, t)
    /\ UNCHANGED <<input_rows, output_csv, existing, processed_set, df_to_process,
                   consumed, pending_results, sent,
                   max_concurrent, save_every, debug_limit, run_no, runs_allowed>>
    /\ UNCHANGED <<pc, TASK_CONFIGS, ret>>
    /\ UNCHANGED <<eval_vars, extract_vars, config_vars, llm_vars>>

\* line 40: no permit is free, the row task waits.
WaitForSem ==
    /\ pc = "running"
    /\ \E t \in DOMAIN task_state :
          /\ task_state[t] = "created"
          /\ ~Free(sem_value, sem_waiters)
          /\ task_state' = [task_state EXCEPT ![t] = "waiting"]
          /\ sem_waiters' = Append(sem_waiters, t)
    /\ UNCHANGED <<input_rows, output_csv, existing, processed_set, df_to_process,
                   sem_value, completed, consumed, pending_results, sent,
                   max_concurrent, save_every, debug_limit, run_no, runs_allowed>>
    /\ UNCHANGED <<pc, TASK_CONFIGS, ret>>
    /\ UNCHANGED <<eval_vars, extract_vars, config_vars, llm_vars>>

\* lines 48-64: get_llm_response returns, the row task returns its output
\* and releases its permit.
LlmReturns ==
    /\ pc = "running"
    /\ \E t \in DOMAIN task_state :
          /\ task_state[t] = "in_llm"
          /\ task_state' = [StatesAfterRelease(task_state, sem_waiters)
                               EXCEPT ![t] = "returned"]
          /\ completed' = Append(completed, t)
    /\ sem_value' = ValueAfterRelease(sem_value, sem_waiters)
    /\ sem_waiters' = (IF sem_waiters # <<>> THEN Tail(sem_waiters) ELSE sem_waiters)
    /\ UNCHANGED <<input_rows, output_csv, existing, processed_set, df_to_process,
                   consumed, pending_results, sent,
                   max_concurrent, save_every, debug_limit, run_no, runs_allowed>>
    /\ UNCHANGED <<pc, TASK_CONFIGS, ret>>
    /\ UNCHANGED <<eval_vars, extract_vars, config_vars, llm_vars>>

\* lines 305-308: the results left are written when the loop is over.
FinalFlush(csv, left, last) ==
    IF last /\ left # <<>> THEN WriteCsv(csv, left, input_rows, run_no) ELSE csv

\* lines 289-302 (and 305-308 after the last task): a result is yielded,
\* added to pending_results, and the batch written when it is full.
ResultArrives ==
    /\ pc = "running"
    /\ completed # <<>>
    /\ task_state[completed[1]] = "returned"
    /\ LET batch == Append(pending_results, df_to_process[completed[1]])
           full == Len(batch) >= save_every
           left == IF full THEN AfterBatch(batch) ELSE batch
           last == consumed + 1 = Len(df_to_process)
       IN /\ pending_results' = left
          /\ output_csv' =
                FinalFlush(IF full THEN WriteCsv(output_csv, batch, input_rows, run_no)
                           ELSE output_csv,
                           left, last)
          /\ pc' = (IF last THEN "ended" ELSE "running")
    /\ completed' = Tail(completed)
    /\ consumed' = consumed + 1
    /\ UNCHANGED <<input_rows, existing, processed_set, df_to_process, task_state,
                   sem_value, sem_waiters, sent,
                   max_concurrent, save_every, debug_limit, run_no, runs_allowed>>
    /\ UNCHANGED <<TASK_CONFIGS, ret>>
    /\ UNCHANGED <<eval_vars, extract_vars, config_vars, llm_vars>>

\* lines 293-295 (and 305-308 after the last task): the exception of a row
\* task is yielded and the loop goes on.
ExceptionArrives ==
    /\ pc = "running"
    /\ completed # <<>>
    /\ task_state[completed[1]] = "raised"
    /\ output_csv' = FinalFlush(output_csv, pending_results,
                                consumed + 1 = Len(df_to_process))
    /\ pc' = (IF consumed + 1 = Len(df_to_process) THEN "ended" ELSE "running")
    /\ completed' = Tail(completed)
    /\ consumed' = consumed + 1
    /\ UNCHANGED <<input_rows, existing, processed_set, df_to_process, task_state,
                   sem_value, sem_waiters, pending_results, sent,
                   max_concurrent, save_every, debug_limit, run_no, runs_allowed>>
    /\ UNCHANGED <<TASK_CONFIGS, ret>>
    /\ UNCHANGED <<eval_vars, extract_vars, config_vars, llm_vars>>

\* The process is stopped during a run: the file stays, the rest is lost.
Interrupt ==
    /\ pc = "running"
    /\ pc' = "idle"
    /\ existing' = NotRead /\ processed_set' = {} /\ df_to_process' = <<>>
    /\ task_state' = <<>> /\ sem_value' = 0 /\ sem_waiters' = <<>>
    /\ completed' = <<>> /\ consumed' = 0 /\ pending_results' = <<>>
    /\ sent' = <<>>
    /\ UNCHANGED <<input_rows, output_csv, max_concurrent, save_every, debug_limit,
                   run_no, runs_allowed>>
    /\ UNCHANGED <<TASK_CONFIGS, ret>>
    /\ UNCHANGED <<eval_vars, extract_vars, config_vars, llm_vars>>

RunStep ==
    \/ StartRun \/ AcquireAndSend \/ AcquireAndRaise \/ WaitForSem
    \/ LlmReturns \/ ResultArrives \/ ExceptionArrives

NextExperiment == RunStep \/ Interrupt

InitExperiment ==
    /\ pc = "idle"
    /\ TASK_CONFIGS = TaskConfigsAtLoad
    /\ EvalIdle /\ ExtractIdle /\ ConfigIdle /\ LlmIdle
    /\ ret = Pending
    /\ existing = NotRead /\ processed_set = {} /\ df_to_process = <<>>
    /\ task_state = <<>> /\ sem_value = 0 /\ sem_waiters = <<>>
    /\ completed = <<>> /\ consumed = 0 /\ pending_results = <<>>
    /\ sent = <<>> /\ run_no = 0

\* Runs on one output file, stopped and resumed.
InitResume ==
    /\ InitExperiment
    /\ input_rows \in SeqsUpTo(ResumeKeys, MaxResumeRows)
    /\ output_csv \in {NoCsv, UnreadableCsv}
    /\ max_concurrent \in 1..MaxConcurrent
    /\ save_every \in 1..MaxSaveEvery
    /\ debug_limit \in {0, 1}
    /\ runs_allowed = MaxRuns

SpecResume == InitResume /\ [][NextExperiment]_vars

\* The key of a row of df stands in a line of the file read at line 239.
AppearsIn(key, rows) ==
    \E k \in 1..Len(rows) :
        rows[k].userid = CellText(key[1]) /\ rows[k].date = CellText(key[2])

\* The task of a row of df raised before its call of get_llm_response.
RaisedUnsent(row) ==
    \E t \in DOMAIN task_state : df_to_process[t] = row /\ task_state[t] = "raised"

\* C28: when the output file exists and is readable at the start of a run,
\* no row of df whose (userid, date) stands in the file is sent to the LLM
\* in that run, and, without a debug limit, every other row whose task does
\* not raise has been sent exactly once when the run ends.
C28_ResumeSkipsWrittenRows ==
    (pc \in {"running", "ended"} /\ existing.read) =>
        \A i \in 1..Len(input_rows) :
            /\ AppearsIn(input_rows[i], existing.rows) => sent[i] = 0
            /\ (~AppearsIn(input_rows[i], existing.rows) /\ debug_limit = 0
                   /\ pc = "ended" /\ ~RaisedUnsent(i)) => sent[i] = 1

\* The same when every userid of df is an integer.
C28_ResumeSkipsWrittenIntegerRows ==
    (pc \in {"running", "ended"} /\ existing.read
       /\ \A j \in 1..Len(input_rows) : input_rows[j][1].type = "int") =>
        \A i \in 1..Len(input_rows) :
            /\ AppearsIn(input_rows[i], existing.rows) => sent[i] = 0
            /\ (~AppearsIn(input_rows[i], existing.rows) /\ debug_limit = 0
                   /\ pc = "ended" /\ ~RaisedUnsent(i)) => sent[i] = 1

\* One run on a new output file, results saved in batches.
InitSave ==
    /\ InitExperiment
    /\ input_rows \in {SaveFrame(n) : n \in 1..MaxSaveRows}
    /\ output_csv = NoCsv
    /\ max_concurrent \in 1..MaxConcurrent
    /\ save_every \in (1..MaxSaveEvery) \cup {DefaultSaveEvery}
    /\ debug_limit = 0
    /\ runs_allowed = 1

SpecSave == InitSave /\ [][NextExperiment]_vars

\* The lines of the output file that hold the result of a row in this run.
WrittenLines(row) ==
    {k \in 1..Len(output_csv.rows) :
        output_csv.rows[k].run = run_no /\ output_csv.rows[k].row = row}

InPending(row) == \E k \in 1..Len(pending_results) : pending_results[k] = row

\* C29: during a run no result stands twice in the output file, a result
\* stands in the file only if its task returned, no result is both in the
\* file and in pending_results while the loop runs, pending_results stays below
\* save_every between two steps, and when the run has ended the result of
\* every task that returned stands in the file exactly once and the result
\* of no task that raised does, whatever the order of completion.
C29_EachResultWrittenOnce ==
    pc \in {"running", "ended"} =>
        /\ pc = "running" => Len(pending_results) < save_every
        /\ \A t \in DOMAIN task_state :
              /\ Cardinality(WrittenLines(df_to_process[t])) <= 1
              /\ WrittenLines(df_to_process[t]) # {} => task_state[t] = "returned"
              /\ (pc = "running" /\ WrittenLines(df_to_process[t]) # {}) =>
                    ~InPending(df_to_process[t])
              /\ pc = "ended" =>
                    /\ task_state[t] = "returned" =>
                          Cardinality(WrittenLines(df_to_process[t])) = 1
                    /\ task_state[t] = "raised" => WrittenLines(df_to_process[t]) = {}
                    /\ task_state[t] \in {"returned", "raised"}

\* Three results of which the last row's came first: a batch of two and the
\* remainder written at the end.
C29_Witness ==
    /\ pc = "ended"
    /\ save_every = 2
    /\ Len(output_csv.rows) = 3
    /\ output_csv.rows[1].row = 3
    /\ \A t \in DOMAIN task_state : task_state[t] = "returned"

\* A task raised between two that returned: its result alone is missing.
C29_WitnessRaised ==
    /\ pc = "ended"
    /\ task_state = <<"returned", "raised", "returned">>
    /\ Len(output_csv.rows) = 2

\* One run with every step taken in the end: each row task that can go on
\* does, each call of get_llm_response returns, each finished task is yielded.
InitPool ==
    /\ InitExperiment
    /\ input_rows \in {SaveFrame(n) : n \in 1..MaxSaveRows}
    /\ output_csv = NoCsv
    /\ max_concurrent \in 0..MaxConcurrent
    /\ save_every \in 1..MaxSaveEvery
    /\ debug_limit = 0
    /\ runs_allowed = 1

SpecPool == InitPool /\ [][RunStep]_vars /\ WF_vars(RunStep)

InLlm == {t \in DOMAIN task_state : task_state[t] = "in_llm"}
Scheduled(t) == pc = "running" /\ t \in DOMAIN task_state
Acquired(t) == t \in DOMAIN task_state /\ task_state[t] \in {"in_llm", "returned", "raised"}

\* C30 as stated: at no moment are more than max_concurrent rows inside
\* their LLM request, and every scheduled row acquires the semaphore in the end.
C30_PoolBoundAndProgress ==
    /\ [](Cardinality(InLlm) <= max_concurrent)
    /\ \A t \in 1..MaxSaveRows : Scheduled(t) ~> Acquired(t)

\* C30, amended: at no moment are more than max_concurrent rows inside
\* their LLM request, and, when max_concurrent is at least 1, every
\* scheduled row acquires the semaphore in the end.
C30_PoolBoundAndProgressIfPermits ==
    /\ [](Cardinality(InLlm) <= max_concurrent)
    /\ \A t \in 1..MaxSaveRows : (Scheduled(t) /\ max_concurrent >= 1) ~> Acquired(t)

\* The pool of one permit is in use by the second row after the first
\* returned, and the third row waits.
C30_Witness ==
    /\ max_concurrent = 1
    /\ task_state = <<"returned", "in_llm", "waiting">>
    /\ sem_waiters = <<3>>

====
